---- MODULE Spec2Model ----
(***************************************************************************)
(* magnetophon: the per-recording statistics step of the recorder's main   *)
(* loop (activity metric, hourly baseline, expected mean/stdev, threshold, *)
(* notification trigger) and the start-up replay of magnetophon.csv, for   *)
(* three versions of the program kept in the repository:                   *)
(*   "duty"    src/magnetophon.cpp lines 413-977  (per-second duty cycle,  *)
(*             linear interpolation of neighbouring hourly buckets)        *)
(*   "interp"  src/unnamed/part_000  (batch decay, linear interpolation,   *)
(*             replay of magnetophon.csv)                                  *)
(*   "fourier" src/unnamed/part_001  (batch decay, low-pass Fourier        *)
(*             reconstruction, replay of magnetophon.csv)                  *)
(*                                                                         *)
(* A C double is a fixed-point integer: the value x stands for x / Scale.  *)
(* A probability is an integer number of 10^-9 (PScale).                   *)
(* A time_t is a number of seconds since a Sunday 00:00:00 local standard  *)
(* time that is the first day of a month.                                  *)
(***************************************************************************)
EXTENDS Integers, Sequences, FiniteSets, TLC

VARIABLES
  version,          \* which version of main() runs
  return_period,    \* return_period / hours_between_notifications (argv[1])
  decay_den,        \* a of "decay = 1. / a" (argv[3]); 600 by default
  pc,               \* "replay": main() before the replay block; "record": in the main cycle
  now,              \* the wall clock, what time() returns
  prev_tm,          \* end of the previous recording
  overall_tm,       \* "interp": process start time
  business,         \* activity metric
  stat,             \* BaselineBusinessCurve (and overall_stat of "duty")
  triggered,        \* notifications are suppressed while TRUE
  history_seconds,  \* "fourier": seconds of all episodes seen
  history_events,   \* "fourier": number of episodes seen; "duty": overall_events
  csv,              \* magnetophon.csv: the lines appended so far
  stats_file,       \* "duty": magnetophon.stats, << >> while it does not exist
  files_written_since_last_save,
  stats_csv_tm,     \* time of the last export to magnetophon.stats.csv
  stats_csv,        \* magnetophon.stats.csv: the exports appended so far
  commands,         \* the commands handed to system() by this process, in order
  last,             \* the values of the last pass through "Collect statistics"
  memo,             \* what the memory held when the process last stopped / last replayed
  episodes,         \* recordings made so far
  restarts,         \* process restarts so far (bounded by MaxRestarts)
  unit              \* the object a class or function is exercised on by itself, and the calls made

vars == << version, return_period, decay_den, pc, now, prev_tm, overall_tm,
           business, stat, triggered, history_seconds, history_events, csv,
           stats_file, files_written_since_last_save, stats_csv_tm, stats_csv,
           commands, last, memo, episodes, restarts, unit >>

(***************************************************************************)
(* Bounds of the model.                                                    *)
(***************************************************************************)
MaxSteps == 3
MaxRestarts == 1

(***************************************************************************)
(* Fixed-point arithmetic standing for the double arithmetic of the code.  *)
(***************************************************************************)
Scale == 10^5
PScale == 10^9

\* the element of a one-element set.  Only({ e : x \in { v } }) is e with x
\* standing for the value of v, which is then computed once however often e
\* uses it, as a local variable of the C code is
Only(S) == CHOOSE v \in S : TRUE

Abs(x) == IF x < 0 THEN -x ELSE x
Min(a, b) == IF a < b THEN a ELSE b
Max(a, b) == IF a > b THEN a ELSE b

\* a / n for an integer n > 0, rounded towards zero
DivInt(a, n) == Only({ IF x < 0 THEN -((-x) \div n) ELSE x \div n : x \in { a } })

\* floor(a * b / Scale) for a, b >= 0, without leaving 32 bits
MulAbs(a, b) ==
  LET a1 == a \div Scale
      a0 == a % Scale
      b1 == b \div Scale
      b0 == b % Scale
      p  == a0 \div 1000
      q  == a0 % 1000
  IN  a1 * b1 * Scale + a1 * b0 + a0 * b1
        + ((10 * p * b0 + (q * b0) \div 100) \div 1000)

\* the product of two doubles
Mul(a, b) ==
  Only({ IF x = 0 \/ y = 0 THEN 0
         ELSE IF (x < 0) = (y < 0) THEN MulAbs(Abs(x), Abs(y))
         ELSE -MulAbs(Abs(x), Abs(y)) : x \in { a }, y \in { b } })

\* the first n decimal digits of r / b for 0 <= r < b
RECURSIVE FracDigits(_, _, _)
FracDigits(r, b, n) ==
  IF n = 0 THEN 0
  ELSE Only({ (r10 \div b) * 10^(n - 1) + FracDigits(r10 % b, b, n - 1)
              : r10 \in { r * 10 } })

\* a / b for integers a >= 0, b > 0, as a number of 10^-digits
Ratio(a, b, digits) ==
  Only({ (x \div y) * 10^digits + FracDigits(x % y, y, digits)
         : x \in { a }, y \in { b } })

\* the quotient of two doubles, b # 0
Div(a, b) ==
  Only({ IF (x < 0) = (y < 0) THEN Ratio(Abs(x), Abs(y), 5)
         ELSE -Ratio(Abs(x), Abs(y), 5) : x \in { a }, y \in { b } })

\* whether r * r <= x * Scale, exactly
SquareLeq(r, x) ==
  LET f  == MulAbs(r, r)
      r0 == r % Scale
      p  == r0 \div 1000
      q  == r0 % 1000
  IN  f < x \/ (f = x /\ (2 * p * q * 1000 + q * q) % Scale = 0)

\* sqrt(): the largest r in lo .. hi - 1 with r * r <= x, narrowing the
\* interval to the sixteenth that holds it
RECURSIVE SqrtSearch(_, _, _)
SqrtSearch(x, lo, hi) ==
  IF hi - lo <= 1 THEN lo
  ELSE LET step == (hi - lo + 15) \div 16
           k    == Cardinality({ i \in 1..15 : lo + i * step < hi
                                               /\ SquareLeq(lo + i * step, x) })
       IN  SqrtSearch(x, lo + k * step, Min(hi, lo + (k + 1) * step))

Sqrt(x) ==
  Only({ IF v <= 0 THEN 0
         ELSE SqrtSearch(v, 0, (IF v < Scale THEN Scale ELSE Min(v, 146 * Scale)) + 1)
         : v \in { x } })

\* pow(x, n) for 0 <= x <= 1 and an integer n >= 0, by repeated squaring
PowStep(h, x, odd) ==
  IF h = 0 THEN 0
  ELSE IF odd THEN MulAbs(MulAbs(h, h), x)
  ELSE MulAbs(h, h)

RECURSIVE Pow(_, _)
Pow(x, n) == IF n = 0 THEN Scale ELSE PowStep(Pow(x, n \div 2), x, n % 2 = 1)

\* log(q / PScale) for a probability 0 < q < PScale:
\* q = m * 2^-k * 2^30 / PScale with m in [1/2, 1), log m = -2 atanh((1-m)/(1+m))
RECURSIVE Normalise(_, _)
Normalise(q, k) == IF q >= 2^29 THEN << q, k >> ELSE Normalise(2 * q, k + 1)

\* 2 atanh(y) = 2 (y + y^3/3 + y^5/5 + y^7/7 + y^9/9) for 0 <= y <= 1/3
TwoAtanh(y) ==
  Only({ Only({ 2 * Mul(v, Scale + Mul(v2, 33333 + Mul(v2, 20000
                                  + Mul(v2, 14286 + Mul(v2, 11111)))))
                : v2 \in { Mul(v, v) } }) : v \in { y } })

Log(q) ==
  Only({ (30 - nk[2]) * 69315 - 9 * 230259
           - TwoAtanh(Ratio((2^30 - nk[1]) \div 1024, (2^30 + nk[1]) \div 1024, 5))
         : nk \in { Normalise(q, 0) } })

\* cos() and sin() of an angle given in units of pi/24/3600: a table of the
\* multiples of pi/24 (7.5 degrees), linear in between
CosTable == << 100000, 99144, 96593, 92388, 86603, 79335, 70711,
               60876, 50000, 38268, 25882, 13053, 0 >>

CosStep(i) ==
  Only({ IF j <= 12 THEN CosTable[j + 1]
         ELSE IF j <= 24 THEN -CosTable[24 - j + 1]
         ELSE IF j <= 36 THEN -CosTable[j - 24 + 1]
         ELSE CosTable[48 - j + 1] : j \in { i % 48 } })

Cos(a) ==
  Only({ Only({ c + DivInt((CosStep(x \div 3600 + 1) - c) * (x % 3600), 3600)
                : c \in { CosStep(x \div 3600) } }) : x \in { a } })

Sin(a) == Cos(a + 36 * 3600)

(***************************************************************************)
(* The clock and the C library's calendar functions.  Daylight saving time *)
(* begins at DstStart in the time zone of the model and lasts to the end   *)
(* of the model's horizon; it moves the local clock one hour ahead.        *)
(***************************************************************************)
Day == 24 * 3600
DstStart == 3 * Day + 2 * 3600

IsDst(t) == t >= DstStart

\* the broken-down time of the local wall-clock second number w
Fields(w, isdst) ==
  [ wall     |-> w,
    tm_sec   |-> w % 60,
    tm_min   |-> (w \div 60) % 60,
    tm_hour  |-> (w \div 3600) % 24,
    tm_mday  |-> 1 + (w \div Day),
    tm_wday  |-> (w \div Day) % 7,
    tm_isdst |-> isdst ]

\* localtime()
Localtime(t) == Fields(IF IsDst(t) THEN t + 3600 ELSE t, IsDst(t))

\* strftime(fileName, ..., "%Y-%m-%d %H.%M.%S", tmp): the text names the local
\* wall-clock second; tm_isdst is not part of it
Strftime(tm) == tm.wall

\* mktime(t) as the replay calls it: year ... second were overwritten with the
\* fields read from the file (the wall-clock second w) and tm_isdst is still the
\* one localtime() gave for the time of the replay.  mktime takes the fields to
\* be a time with that daylight saving setting and normalises them.
Mktime(w, isdst) == Localtime(IF isdst THEN w - 3600 ELSE w)

(***************************************************************************)
(* class RunningStat                                                       *)
(***************************************************************************)
RunningStat == [ n_ |-> 0, m_ |-> 0, s_ |-> 0 ]

\* push that counts an observation twice
push_CountsTwice(r, x) == [ n_ |-> r.n_ + 2, m_ |-> x, s_ |-> 0 ]

\* mean without the test for an empty accumulator, m_ being 1 until set
mean_Unguarded(r) == IF r.n_ > 0 THEN r.m_ ELSE Scale

\* variance over n_, without Bessel's correction
variance_Population(r) == IF r.n_ > 1 THEN r.s_ \div r.n_ ELSE 0

push(r, x) ==
  IF r.n_ = 0 THEN [ n_ |-> 1, m_ |-> x, s_ |-> 0 ]
  ELSE Only({ [ n_ |-> r.n_ + 1, m_ |-> new_m,
                s_ |-> r.s_ + Mul(x - r.m_, x - new_m) ]
              : new_m \in { r.m_ + DivInt(x - r.m_, r.n_ + 1) } })

mean(r) == IF r.n_ > 0 THEN r.m_ ELSE 0

variance(r) == IF r.n_ > 1 THEN DivInt(r.s_, r.n_ - 1) ELSE 0

stdev(r) == Sqrt(variance(r))

count(r) == r.n_

(***************************************************************************)
(* class BaselineBusinessCurve.  A RunningStat* into it is a record        *)
(* [weekend, hour]; "duty" keeps overall_stat beside the two arrays.       *)
(***************************************************************************)
BaselineBusinessCurve ==
  [ overall_ |-> RunningStat,
    weekday_ |-> [ h \in 0..23 |-> RunningStat ],
    weekend_ |-> [ h \in 0..23 |-> RunningStat ] ]

\* the element a RunningStat* points to
At(curve, ptr) ==
  IF ptr.weekend THEN curve.weekend_[ptr.hour] ELSE curve.weekday_[ptr.hour]

PushAt(curve, ptr, x) ==
  IF ptr.weekend
    THEN [ curve EXCEPT !.weekend_[ptr.hour] = push(@, x) ]
    ELSE [ curve EXCEPT !.weekday_[ptr.hour] = push(@, x) ]

\* IsWeekend with Friday and Saturday as the weekend
IsWeekend_FridaySaturday(tm_wday) == tm_wday = 5 \/ tm_wday = 6

\* the array stat.push() selects: &weekend_[0] or &weekday_[0]
IsWeekend(tm_wday) == tm_wday = 0 \/ tm_wday = 6

\* a push that leaves overall_ as it was
BaselineBusinessCurve_push_BucketOnly(curve, x, tm_wday, tm_hour) ==
  PushAt(curve, [ weekend |-> IsWeekend(tm_wday), hour |-> tm_hour ], x)

\* BaselineBusinessCurve::push(x, tm_wday, tm_hour)
BaselineBusinessCurve_push(curve, x, tm_wday, tm_hour) ==
  PushAt([ curve EXCEPT !.overall_ = push(@, x) ],
         [ weekend |-> IsWeekend(tm_wday), hour |-> tm_hour ], x)

\* a handle one bucket further than the one pushed into
push_returns_next(tm_wday, tm_hour) ==
  [ weekend |-> IsWeekend(tm_wday), hour |-> (tm_hour + 1) % 24 ]

\* what push() returns, part_000 lines 90-93: rspa after "rspa += tm_hour",
\* the bucket pushed into
push_returns_interp(tm_wday, tm_hour) ==
  [ weekend |-> IsWeekend(tm_wday), hour |-> tm_hour ]

\* what push() returns, part_001 lines 90-92: rspa as it was set, the bucket
\* of hour 0 of the class; the caller reads rsp[h]
push_returns_fourier(tm_wday, tm_hour) ==
  [ weekend |-> IsWeekend(tm_wday), hour |-> 0 ]

\* rsp[h]: the bucket h places after the one the handle points to
Index(ptr, h) == [ ptr EXCEPT !.hour = @ + h ]

(***************************************************************************)
(* standard_normal_inverse_cdf(p); the argument is a number of 10^-9       *)
(***************************************************************************)
rational_approximation(t) ==
  t - Div(Mul(Mul(1033, t) + 80285, t) + 251552,
          Mul(Mul(Mul(131, t) + 18927, t) + 143279, t) + Scale)

\* the inverse cdf with the two ends answered by -5 and 5 instead of 0
standard_normal_inverse_cdf_Saturating(p) ==
  IF p <= 0 THEN -5 * Scale
  ELSE IF p >= PScale THEN 5 * Scale
  ELSE Only({ IF p < PScale \div 2 THEN -rational_approximation(t)
              ELSE rational_approximation(t)
              : t \in { Sqrt(-2 * Log(IF p < PScale \div 2 THEN p ELSE PScale - p)) } })

\* the inverse cdf without the change of sign below 1/2
standard_normal_inverse_cdf_Unsigned(p) ==
  IF p <= 0 \/ p >= PScale THEN 0
  ELSE rational_approximation(Sqrt(-2 * Log(IF p < PScale \div 2 THEN p ELSE PScale - p)))

standard_normal_inverse_cdf(p) ==
  IF p <= 0 \/ p >= PScale THEN 0
  ELSE Only({ IF p < PScale \div 2 THEN -rational_approximation(t)
              ELSE rational_approximation(t)
              : t \in { Sqrt(-2 * Log(IF p < PScale \div 2 THEN p ELSE PScale - p)) } })

(***************************************************************************)
(* business_update() and the smoothing loops of "duty"                     *)
(***************************************************************************)
\* pow(1. - decay, n) with decay = 1. / a
TailWeight(a, n) == Pow(Scale - Scale \div a, n)

\* part_000: transmissions per hour times duty cycle
business_update_interp(b, seconds_on, seconds_off, a) ==
  IF seconds_on < 0 \/ seconds_off < 0 THEN b
  ELSE LET transmissions_per_hour == Ratio(3600, seconds_on + seconds_off + 1, 5)
           duty_cycle  == Ratio(seconds_on + 1, seconds_on + seconds_off + 1, 5)
           activity    == Mul(transmissions_per_hour, duty_cycle)
       IN  Only({ Mul(Scale - tail_weight, activity) + Mul(tail_weight, b)
                  : tail_weight \in { TailWeight(a, seconds_on + seconds_off) } })

\* part_001: fourth root of the transmission length
business_update_fourier(b, seconds_on, seconds_off, a) ==
  IF seconds_on < 0 \/ seconds_off < 0 THEN b
  ELSE LET activity == Sqrt(Sqrt(seconds_on * Scale))
       IN  Only({ Mul(Scale - tail_weight, activity) + Mul(tail_weight, b)
                  : tail_weight \in { TailWeight(a, seconds_on + seconds_off) } })

\* the two loop bodies exchanged
SmoothStep_Exchanged(st, up, a) ==
  Only({ [ b |-> b, bucket |-> push(st.bucket, b), overall |-> push(st.overall, b) ]
         : b \in { IF up THEN st.b - DivInt(st.b, a)
                   ELSE st.b + DivInt(Scale - st.b, a) } })

\* "duty": one pass of a smoothing loop's body; st = [b, bucket, overall]
SmoothStep(st, up, a) ==
  Only({ [ b |-> b, bucket |-> push(st.bucket, b), overall |-> push(st.overall, b) ]
         : b \in { IF up THEN st.b + DivInt(Scale - st.b, a)
                   ELSE st.b - DivInt(st.b, a) } })

\* for (int i = 0; i < n; i++) { ... }: no pass when n <= 0
RECURSIVE Smooth(_, _, _, _)
Smooth(st, n, up, a) ==
  IF n <= 0 THEN st
  ELSE IF n = 1 THEN SmoothStep(st, up, a)
  ELSE Only({ Smooth(half, n - n \div 2, up, a)
              : half \in { Smooth(st, n \div 2, up, a) } })

(***************************************************************************)
(* Expected mean and stdev: interpolation between neighbouring buckets     *)
(***************************************************************************)
\* rspa: the bucket of the recording's hour
OwnBucket(tm) == [ weekend |-> IsWeekend(tm.tm_wday), hour |-> tm.tm_hour ]

\* rspb taken in the class of the recording's own day at the day boundary too
NeighbourBucket_SameDay(tm) ==
  IF tm.tm_min >= 30
    THEN [ weekend |-> (tm.tm_wday = 0 \/ tm.tm_wday = 6), hour |-> (tm.tm_hour + 1) % 24 ]
    ELSE [ weekend |-> (tm.tm_wday = 0 \/ tm.tm_wday = 6), hour |-> (tm.tm_hour + 23) % 24 ]

\* rspa + 1 and rspa - 1 at every hour
NeighbourBucket_Unguarded(tm) ==
  IF tm.tm_min >= 30
    THEN [ weekend |-> IsWeekend(tm.tm_wday), hour |-> tm.tm_hour + 1 ]
    ELSE [ weekend |-> IsWeekend(tm.tm_wday), hour |-> tm.tm_hour - 1 ]

\* rspb: the neighbour bucket
NeighbourBucket(tm) ==
  IF tm.tm_min >= 30
    THEN IF tm.tm_hour = 23
           THEN [ weekend |-> (tm.tm_wday = 5 \/ tm.tm_wday = 6), hour |-> 0 ]
           ELSE [ weekend |-> IsWeekend(tm.tm_wday), hour |-> tm.tm_hour + 1 ]
    ELSE IF tm.tm_hour = 0
           THEN [ weekend |-> (tm.tm_wday = 0 \/ tm.tm_wday = 1), hour |-> 23 ]
           ELSE [ weekend |-> IsWeekend(tm.tm_wday), hour |-> tm.tm_hour - 1 ]

\* the forward weight in both directions
weight_a_ForwardOnly(tm) == ((90 - tm.tm_min) * Scale) \div 60

\* one minute more of the own bucket going backward
weight_a_Steeper(tm) ==
  IF tm.tm_min >= 30 THEN ((90 - tm.tm_min) * Scale) \div 60
  ELSE ((32 + tm.tm_min) * Scale) \div 60

weight_a(tm) ==
  IF tm.tm_min >= 30 THEN ((90 - tm.tm_min) * Scale) \div 60
  ELSE ((31 + tm.tm_min) * Scale) \div 60

\* double weight_b = 1. - weight_a
weight_b(tm) == Scale - weight_a(tm)

Interpolated(curve, tm) ==
  Only({ [ mean  |-> Mul(wa, mean(a)) + Mul(Scale - wa, mean(b)),
           stdev |-> Mul(wa, stdev(a)) + Mul(Scale - wa, stdev(b)),
           from  |-> "buckets" ]
         : a \in { At(curve, OwnBucket(tm)) }, b \in { At(curve, NeighbourBucket(tm)) },
           wa \in { weight_a(tm) } })

Overall(curve) ==
  [ mean |-> mean(curve.overall_), stdev |-> stdev(curve.overall_), from |-> "overall" ]

Sentinel(x) == [ mean |-> x, stdev |-> x, from |-> "sentinel" ]

\* part_000 lines 454-468
Expected_interp(curve, tm, start, started) ==
  IF count(At(curve, OwnBucket(tm))) # 0 /\ count(At(curve, NeighbourBucket(tm))) # 0
    THEN Interpolated(curve, tm)
  ELSE IF start - started > 3600 THEN Overall(curve)
  ELSE Sentinel(1001 * Scale)

\* magnetophon.cpp lines 856-870
Expected_duty(curve, tm) ==
  IF count(At(curve, OwnBucket(tm))) > 3600 /\ count(At(curve, NeighbourBucket(tm))) > 3600
    THEN Interpolated(curve, tm)
  ELSE IF count(curve.overall_) > 3600 THEN Overall(curve)
  ELSE Sentinel(1 * Scale)

(***************************************************************************)
(* Expected mean and stdev: slow Fourier transform of the 24 hourly values *)
(* of the recording's class, harmonics k = 0, 2, 4, 6                      *)
(***************************************************************************)
RECURSIVE SumUpTo(_, _)
SumUpTo(f, h) == IF h < 0 THEN 0 ELSE f[h] + SumUpTo(f, h - 1)

\* the inner loop stopping one hour short
Forward_LastHourMissing(x, k) ==
  [ re |-> SumUpTo([ h \in 0..23 |-> Mul(x[h], Cos(k * h * 3600)) ], 22),
    im |-> SumUpTo([ h \in 0..23 |-> Mul(x[h], Sin(k * h * 3600)) ], 22) ]

\* frequency_domain[k] and frequency_domain[k + 1] of the hourly values x
Forward(x, k) ==
  [ re |-> SumUpTo([ h \in 0..23 |-> Mul(x[h], Cos(k * h * 3600)) ], 23),
    im |-> SumUpTo([ h \in 0..23 |-> Mul(x[h], Sin(k * h * 3600)) ], 23) ]

\* the inverse transform at second t of the day
Inverse(x, t) ==
  LET term(k) == Only({ (IF k > 1 THEN 2 ELSE 1)
                          * (Mul(fd.re, Cos(k * t)) + Mul(fd.im, Sin(k * t)))
                        : fd \in { Forward(x, k) } })
  IN  DivInt(term(0) + term(2) + term(4) + term(6), 24)

hours_with_data(rsp) == Cardinality({ h \in 0..23 : count(rsp[h]) # 0 })

\* part_001 lines 444-486
Expected_fourier(curve, tm) ==
  LET rsp == IF IsWeekend(tm.tm_wday) THEN curve.weekend_ ELSE curve.weekday_ IN
  Only({ IF hours_with_data(rsp) >= 24
           THEN [ mean  |-> Inverse(means, tm.tm_sec + 60 * tm.tm_min + 3600 * tm.tm_hour),
                  stdev |-> Inverse(stdevs, tm.tm_sec + 60 * tm.tm_min + 3600 * tm.tm_hour),
                  from  |-> "buckets" ]
           ELSE Overall(curve)
         : means \in { [ h \in 0..23 |-> mean(rsp[h]) ] },
           stdevs \in { [ h \in 0..23 |-> stdev(rsp[h]) ] } })

(***************************************************************************)
(* Threshold and trigger                                                   *)
(***************************************************************************)
\* num / den as a probability, for num > 0 and den > 0; a quotient of 1 or
\* more is PScale, and one too small to represent is the smallest positive one
Quotient(num, den) ==
  IF num >= den THEN PScale
  ELSE IF den > 2 * 10^8 THEN Max(1, Ratio(num \div 100, den \div 100, 9))
  ELSE Max(1, Ratio(num, den, 9))

\* part_001 lines 490-491: p = 1. / (events_per_hour * return_period) with
\* events_per_hour = 3600. * history_events / (history_seconds + 1.)
p_fourier(seconds, events, period) ==
  IF seconds + 1 = 0 THEN 0
  ELSE IF seconds + 1 < 0 THEN -1
  ELSE Quotient(seconds + 1, 3600 * events * period)

\* part_000 line 472: p = 1. / (stat.overall_.mean() * return_period)
p_interp(overall_mean, period) ==
  IF overall_mean = 0 THEN PScale
  ELSE Quotient(Scale, overall_mean * period)

\* magnetophon.cpp lines 875-876: hours = overall_stat.count() / 3600.;
\* p = hours / (overall_events * hours_between_notifications)
p_duty(seconds, events, period) ==
  IF seconds = 0 THEN 0
  ELSE Quotient(seconds, 3600 * events * period)

\* Command without the name of the recording
Command_Unnamed(fileName) == << "argv[0]", ".command ", 0, ".aiff" >>

\* the command line of the notification script
Command(fileName) == << "argv[0]", ".command ", fileName, ".aiff" >>

\* Decide with the notification branch taken on every evaluation whose level
\* is over the threshold, whatever triggered was
Decide_NotifyWhileTriggered(was_triggered, b, expected, p, initial) ==
  Only({ [ threshold |-> threshold,
           triggered |-> IF was_triggered
                           THEN ~(b < expected.mean + expected.stdev)
                           ELSE b > threshold,
           notify    |-> b > threshold ]
         : threshold \in { expected.mean
                             + Mul(standard_normal_inverse_cdf(PScale - p),
                                   expected.stdev) } })

\* Decide with the way back to idle taken when the level is under the
\* threshold that was last computed, mean + z * stdev
Decide_ExitUnderThreshold(was_triggered, b, expected, p, initial) ==
  Only({ [ threshold |-> IF was_triggered THEN initial ELSE threshold,
           triggered |-> IF was_triggered THEN ~(b < threshold) ELSE b > threshold,
           notify    |-> ~was_triggered /\ b > threshold ]
         : threshold \in { expected.mean
                             + Mul(standard_normal_inverse_cdf(PScale - p),
                                   expected.stdev) } })

\* if (!triggered) { ... } else { ... }: the threshold, the new value of
\* triggered and whether the notification branch is entered.  initial is the
\* value threshold is declared with.
Decide(was_triggered, b, expected, p, initial) ==
  Only({ [ threshold |-> threshold,
           triggered |-> IF was_triggered
                           THEN ~(b < expected.mean + expected.stdev)
                           ELSE b > threshold,
           notify    |-> ~was_triggered /\ b > threshold ]
         : threshold \in { IF was_triggered THEN initial
                           ELSE expected.mean
                                  + Mul(standard_normal_inverse_cdf(PScale - p),
                                        expected.stdev) } })

(***************************************************************************)
(* Files and inputs the model starts from                                  *)
(***************************************************************************)
Versions == { "duty", "interp", "fourier" }

\* argv[1]: one hour, and the default of one week
ReturnPeriods == { 1, 24 * 7 }

\* the process is started on a Tuesday at 09:58:20
StartTime == 2 * Day + 9 * 3600 + 58 * 60 + 20

\* seconds a stopped process stays down before it is started again
Downtimes == { 60, Day }

\* (seconds until the recording starts, mRecordingLength in seconds) of one
\* recording cycle; a negative wait is a clock set back, a negative length an
\* overflown sample count, and << 0, 0 >> a recording of less than a second
\* that starts in the second the loop came round
Recordings ==
  [ duty    |-> { << 10, 130 >>, << 1, 1900 >>, << 620, 5 >>, << -5, 10 >>, << 10, -3 >> },
    interp  |-> { << 60, 10 >>, << 0, 599 >>, << 110, 2000 >>, << -5, 10 >>, << 10, -3 >>,
                  << 0, 0 >> },
    fourier |-> { << 60, 10 >>, << 0, 599 >>, << 110, 2000 >>, << -5, 10 >>, << 10, -3 >> } ]

\* a magnetophon.csv of an earlier run: one recording in every hour of a Monday
History ==
  [ i \in 1..24 |->
      [ datetime    |-> Day + (i - 1) * 3600 + 15 * 60,
        seconds_off |-> 3590 - 5 * i,
        seconds_on  |-> 10 + 5 * i ] ]

\* a magnetophon.stats of an earlier run: more than an hour in every bucket
SavedStatistics ==
  [ weekday_ |-> [ h \in 0..23 |-> [ n_ |-> 4000, m_ |-> 3000, s_ |-> 639840 ] ],
    weekend_ |-> [ h \in 0..23 |-> [ n_ |-> 4000, m_ |-> 3000, s_ |-> 639840 ] ] ]

NoEpisode ==
  [ valid |-> FALSE, fileName |-> 0, seconds_of_silence |-> 0,
    seconds_of_activity |-> 0, before |-> << >>, expected |-> Sentinel(0),
    threshold |-> 0, was_triggered |-> FALSE, notify |-> FALSE, shell |-> FALSE ]

\* what replay and recording build up in memory
Memory ==
  [ business |-> business, stat |-> stat,
    history_seconds |-> history_seconds, history_events |-> history_events ]

(***************************************************************************)
(* Start of main(): the state after the declarations and argument parsing  *)
(***************************************************************************)
Init ==
  /\ version \in Versions
  /\ return_period \in ReturnPeriods
  /\ decay_den = 600
  /\ pc = "replay"
  /\ now = StartTime
  /\ prev_tm = StartTime
  /\ overall_tm = StartTime
  /\ stats_csv_tm = StartTime
  /\ business = 0
  /\ stat = BaselineBusinessCurve
  /\ triggered = FALSE
  /\ history_seconds = 0
  /\ history_events = 0
  /\ csv \in (IF version = "duty" THEN { << >> } ELSE { << >>, History })
  /\ stats_file \in (IF version = "duty" THEN { << >>, << SavedStatistics >> } ELSE { << >> })
  /\ files_written_since_last_save = 0
  /\ stats_csv = << >>
  /\ commands = << >>
  /\ last = NoEpisode
  /\ memo = [ live |-> << >>, prior |-> << >>, since |-> 0, exits |-> 0 ]
  /\ episodes = 0
  /\ restarts = 0
  /\ unit = << >>

(***************************************************************************)
(* Start-up: what main() does before the recording loop                    *)
(***************************************************************************)
\* magnetophon.stats left unread
ReadStatistics_Skipped ==
  /\ pc = "replay"
  /\ version = "duty"
  /\ pc' = "record"
  /\ UNCHANGED << version, return_period, decay_den, now, prev_tm, overall_tm,
                  business, stat, triggered, history_seconds, history_events, csv,
                  stats_file, files_written_since_last_save, stats_csv_tm,
                  stats_csv, commands, last, memo, episodes, restarts, unit >>

\* "duty", magnetophon.cpp lines 676-686: fread() of magnetophon.stats, if it
\* is there, over the two bucket arrays
ReadStatistics ==
  /\ pc = "replay"
  /\ version = "duty"
  /\ stat' = IF stats_file = << >> THEN stat
             ELSE [ stat EXCEPT !.weekday_ = stats_file[1].weekday_,
                                !.weekend_ = stats_file[1].weekend_ ]
  /\ pc' = "record"
  /\ UNCHANGED << version, return_period, decay_den, now, prev_tm, overall_tm,
                  business, triggered, history_seconds, history_events, csv,
                  stats_file, files_written_since_last_save, stats_csv_tm,
                  stats_csv, commands, last, memo, episodes, restarts, unit >>

\* one line of magnetophon.csv read by fscanf() and applied; struct tm* t comes
\* from localtime(&rawtime), so mktime() sees the tm_isdst of the present
ReplayLine(m, line, isdst) ==
  Only({
      [ business |-> b,
        stat     |-> BaselineBusinessCurve_push(m.stat, b, t.tm_wday, t.tm_hour),
        history_seconds |-> IF version = "fourier"
                              THEN m.history_seconds + line.seconds_on + line.seconds_off
                              ELSE m.history_seconds,
        history_events  |-> IF version = "fourier" THEN m.history_events + 1
                            ELSE m.history_events ]
      : t \in { Mktime(line.datetime, isdst) },
        b \in { IF version = "interp"
                  THEN business_update_interp(m.business, line.seconds_on,
                                              line.seconds_off, decay_den)
                  ELSE business_update_fourier(m.business, line.seconds_on,
                                               line.seconds_off, decay_den) } })

\* the do ... while (c != EOF) loop over lines i .. j of the file, from memory m
RECURSIVE ReplayFrom(_, _, _, _, _)
ReplayFrom(m, lines, i, j, isdst) ==
  IF i > j THEN m
  ELSE IF i = j THEN ReplayLine(m, lines[i], isdst)
  ELSE Only({ ReplayFrom(half, lines, (i + j) \div 2 + 1, j, isdst)
              : half \in { ReplayFrom(m, lines, i, (i + j) \div 2, isdst) } })

\* "interp" and "fourier": read and replay historical data
Replay ==
  /\ pc = "replay"
  /\ version \in { "interp", "fourier" }
  /\ \E m \in { ReplayFrom(Memory, csv, 1, Len(csv), IsDst(now)) } :
       /\ business' = m.business
       /\ stat' = m.stat
       /\ history_seconds' = m.history_seconds
       /\ history_events' = m.history_events
  /\ pc' = "record"
  /\ UNCHANGED << version, return_period, decay_den, now, prev_tm, overall_tm,
                  triggered, csv, stats_file, files_written_since_last_save,
                  stats_csv_tm, stats_csv, commands, last, memo, episodes, restarts, unit >>

(***************************************************************************)
(* One pass of the recording loop, from the end of a recording on           *)
(***************************************************************************)
\* seconds a recording took; a negative mRecordingLength is a count of
\* 16-bit samples that went past 2^31 and wrapped before the division by
\* the sample rate
Elapsed(length) == IF length < 0 THEN 2^30 \div 11025 + length ELSE length

\* the weekday columns printed twice
StatsLines_WeekdayTwice(fileName, curve) ==
  [ datetime |-> fileName,
    weekday  |-> [ h \in 0..23 |-> << count(curve.weekday_[h]), mean(curve.weekday_[h]),
                                      stdev(curve.weekday_[h]) >> ],
    weekend  |-> [ h \in 0..23 |-> << count(curve.weekday_[h]), mean(curve.weekday_[h]),
                                      stdev(curve.weekday_[h]) >> ] ]

\* the 24 lines appended to magnetophon.stats.csv
StatsLines(fileName, curve) ==
  [ datetime |-> fileName,
    weekday  |-> [ h \in 0..23 |-> << count(curve.weekday_[h]), mean(curve.weekday_[h]),
                                      stdev(curve.weekday_[h]) >> ],
    weekend  |-> [ h \in 0..23 |-> << count(curve.weekend_[h]), mean(curve.weekend_[h]),
                                      stdev(curve.weekend_[h]) >> ] ]

\* from the comparison with the threshold to time(&prev_tm); m is the memory
\* after the statistics were collected, d the outcome of Decide, and shell
\* what system(NULL) returns if it is asked
Conclude(start, tmp, length, silence, m, expected, d) ==
  \E shell \in (IF d.notify THEN BOOLEAN ELSE { FALSE }) :
  LET fileName == Strftime(tmp)
      finish   == start + Elapsed(length)
      day_now  == tmp.tm_mday
      day_then == Localtime(stats_csv_tm).tm_mday
  IN  /\ business' = m.business
      /\ stat' = m.stat
      /\ history_seconds' = m.history_seconds
      /\ history_events' = m.history_events
      /\ triggered' = d.triggered
      /\ commands' = IF d.notify /\ shell THEN Append(commands, Command(fileName))
                     ELSE commands
      /\ csv' = Append(csv, [ datetime |-> fileName, seconds_off |-> silence,
                              seconds_on |-> length ])
      /\ IF version = "duty" /\ files_written_since_last_save + 1 > 10
           THEN /\ files_written_since_last_save' = 0
                /\ stats_file' = << [ weekday_ |-> m.stat.weekday_,
                                      weekend_ |-> m.stat.weekend_ ] >>
           ELSE /\ files_written_since_last_save' =
                     IF version = "duty" THEN files_written_since_last_save + 1
                     ELSE files_written_since_last_save
                /\ stats_file' = stats_file
      /\ IF day_now # day_then
           THEN /\ stats_csv_tm' = finish
                /\ stats_csv' = Append(stats_csv, StatsLines(fileName, m.stat))
           ELSE UNCHANGED << stats_csv_tm, stats_csv >>
      /\ now' = finish
      /\ prev_tm' = finish
      /\ last' = [ valid |-> TRUE, fileName |-> fileName,
                   seconds_of_silence |-> silence, seconds_of_activity |-> length,
                   before |-> << Memory >>, expected |-> expected,
                   threshold |-> d.threshold, was_triggered |-> triggered,
                   notify |-> d.notify, shell |-> shell ]
      /\ memo' = [ memo EXCEPT !.since = @ + 1,
                                !.exits = IF triggered /\ ~d.triggered THEN @ + 1 ELSE @ ]
      /\ episodes' = episodes + 1
      /\ UNCHANGED << version, return_period, decay_den, pc, overall_tm, restarts, unit >>

\* "duty", magnetophon.cpp lines 808-833: overall_events++ and the two
\* smoothing loops, which push every second's value to the recording's bucket
\* and to overall_stat
CollectDuty(m, seconds_of_silence, seconds_of_activity, tmp) ==
  LET rspa   == OwnBucket(tmp)
      silent == Smooth([ b |-> m.business, bucket |-> At(m.stat, rspa),
                         overall |-> m.stat.overall_ ],
                       seconds_of_silence, FALSE, decay_den)
  IN  Only({ [ business |-> active.b,
               stat |-> IF rspa.weekend
                          THEN [ m.stat EXCEPT !.weekend_[rspa.hour] = active.bucket,
                                               !.overall_ = active.overall ]
                          ELSE [ m.stat EXCEPT !.weekday_[rspa.hour] = active.bucket,
                                               !.overall_ = active.overall ],
               history_seconds |-> m.history_seconds,
               history_events |-> m.history_events + 1 ]
             : active \in { Smooth(silent, seconds_of_activity, TRUE, decay_den) } })

\* magnetophon.cpp lines 796-975
DutyEpisode ==
  /\ pc = "record"
  /\ version = "duty"
  /\ episodes + restarts < MaxSteps
  /\ \E rec \in Recordings["duty"] :
     \E tmp \in { Localtime(prev_tm + rec[1]) } :
     \E m \in { CollectDuty(Memory, rec[1], rec[2], tmp) } :
     \E expected \in { Expected_duty(m.stat, tmp) } :
     \E d \in { Decide(triggered, m.business, expected,
                       p_duty(count(m.stat.overall_), m.history_events, return_period),
                       1 * Scale) } :
       Conclude(prev_tm + rec[1], tmp, rec[2], rec[1], m, expected, d)

\* "interp", part_000 lines 430-433
CollectInterp(m, seconds_of_silence, seconds_of_activity, tmp) ==
  Only({ [ business |-> b,
           stat |-> BaselineBusinessCurve_push(m.stat, b, tmp.tm_wday, tmp.tm_hour),
           history_seconds |-> m.history_seconds,
           history_events |-> m.history_events ]
         : b \in { business_update_interp(m.business, seconds_of_silence,
                                          seconds_of_activity, decay_den) } })

\* part_000 lines 416-556
InterpEpisode ==
  /\ pc = "record"
  /\ version = "interp"
  /\ episodes + restarts < MaxSteps
  /\ \E rec \in Recordings["interp"] :
     \E tmp \in { Localtime(prev_tm + rec[1]) } :
     \E m \in { CollectInterp(Memory, rec[1], rec[2], tmp) } :
     \E expected \in { Expected_interp(m.stat, tmp, prev_tm + rec[1], overall_tm) } :
     \E d \in { Decide(triggered, m.business, expected,
                       p_interp(mean(m.stat.overall_), return_period),
                       1001 * Scale) } :
       Conclude(prev_tm + rec[1], tmp, rec[2], rec[1], m, expected, d)

\* the level of before the update pushed to the baseline
CollectFourier_StaleLevel(m, seconds_of_silence, seconds_of_activity, tmp) ==
  Only({ [ business |-> b,
           stat |-> BaselineBusinessCurve_push(m.stat, m.business, tmp.tm_wday, tmp.tm_hour),
           history_seconds |-> m.history_seconds + seconds_of_silence
                                 + seconds_of_activity,
           history_events |-> m.history_events + 1 ]
         : b \in { business_update_fourier(m.business, seconds_of_activity,
                                           seconds_of_silence, decay_den) } })

\* "fourier", part_001 lines 431-436
CollectFourier(m, seconds_of_silence, seconds_of_activity, tmp) ==
  Only({ [ business |-> b,
           stat |-> BaselineBusinessCurve_push(m.stat, b, tmp.tm_wday, tmp.tm_hour),
           history_seconds |-> m.history_seconds + seconds_of_silence
                                 + seconds_of_activity,
           history_events |-> m.history_events + 1 ]
         : b \in { business_update_fourier(m.business, seconds_of_activity,
                                           seconds_of_silence, decay_den) } })

\* part_001 lines 417-572
FourierEpisode ==
  /\ pc = "record"
  /\ version = "fourier"
  /\ episodes + restarts < MaxSteps
  /\ \E rec \in Recordings["fourier"] :
     \E tmp \in { Localtime(prev_tm + rec[1]) } :
     \E m \in { CollectFourier(Memory, rec[1], rec[2], tmp) } :
     \E expected \in { Expected_fourier(m.stat, tmp) } :
     \E d \in { Decide(triggered, m.business, expected,
                       p_fourier(m.history_seconds, m.history_events, return_period),
                       10001 * Scale) } :
       Conclude(prev_tm + rec[1], tmp, rec[2], rec[1], m, expected, d)

(***************************************************************************)
(* The process is stopped and started again: the files stay, the memory is *)
(* as the declarations of main() leave it, the clock has moved on          *)
(***************************************************************************)
Relaunch ==
  /\ pc = "record"
  /\ restarts < MaxRestarts
  /\ \E downtime \in Downtimes :
       /\ now' = now + downtime
       /\ prev_tm' = now + downtime
       /\ overall_tm' = now + downtime
       /\ stats_csv_tm' = now + downtime
  /\ pc' = "replay"
  /\ business' = 0
  /\ stat' = BaselineBusinessCurve
  /\ triggered' = FALSE
  /\ history_seconds' = 0
  /\ history_events' = 0
  /\ files_written_since_last_save' = 0
  /\ commands' = << >>
  /\ last' = NoEpisode
  /\ memo' = [ live  |-> << Memory >>,
               prior |-> IF memo.since = 0 THEN << Memory >> ELSE << >>,
               since |-> 0, exits |-> 0 ]
  /\ restarts' = restarts + 1
  /\ UNCHANGED << version, return_period, decay_den, csv, stats_file, stats_csv,
                  episodes, unit >>

Restart ==
  /\ episodes + restarts < MaxSteps
  /\ Relaunch

Next ==
  \/ ReadStatistics
  \/ Replay
  \/ DutyEpisode
  \/ InterpEpisode
  \/ FourierEpisode
  \/ Restart

Spec == Init /\ [][Next]_vars

(***************************************************************************)
(* Properties                                                              *)
(***************************************************************************)
\* the last step was an evaluation of a recording by this process
Evaluated == pc = "record" /\ last.valid

\* C1: a notification is issued only by an evaluation that starts idle with
\* the level over the threshold and ends triggered; an evaluation that starts
\* triggered issues none; and between two notifications of a run there is an
\* evaluation that went from triggered back to idle.
C1_NotificationOnRisingEdgeOnly ==
  /\ [][ /\ (restarts' = restarts /\ commands' # commands) =>
              /\ ~triggered
              /\ triggered'
              /\ business' > last'.threshold
              /\ Len(commands') = Len(commands) + 1
         /\ (restarts' = restarts /\ triggered) => commands' = commands ]_vars
  /\ [](Len(commands) <= memo.exits + (IF triggered THEN 1 ELSE 0))

\* two notifications in one run, with the way back to idle between them
C1_Witness == Len(commands) = 2 /\ memo.exits >= 1

\* C2: an evaluation that starts triggered ends idle exactly when the level
\* is under expected mean + expected stdev, and ends triggered otherwise.
C2_ExitExactlyUnderMeanPlusStdev ==
  (Evaluated /\ last.was_triggered) =>
     (~triggered <=> business < last.expected.mean + last.expected.stdev)

\* "fourier": an evaluation that started triggered has ended idle
C2_Witness ==
  /\ Evaluated
  /\ version = "fourier"
  /\ last.was_triggered
  /\ ~triggered
  /\ business < last.expected.mean + last.expected.stdev

\* idle plus active seconds of the lines of a magnetophon.csv
RECURSIVE ObservedSeconds(_)
ObservedSeconds(lines) ==
  IF lines = << >> THEN 0
  ELSE lines[1].seconds_off + lines[1].seconds_on + ObservedSeconds(Tail(lines))

\* no line of the log has a negative duration
WellFormed(lines) ==
  \A i \in 1..Len(lines) : lines[i].seconds_off >= 0 /\ lines[i].seconds_on >= 0

\* the process found neither a log nor saved statistics when it started, and
\* has run since
FreshStart == restarts = 0 /\ Len(csv) = episodes /\ stats_file = << >>

\* C3: from a fresh state, while the idle plus active seconds of all episodes
\* processed so far are below 3600, no evaluation goes from idle to triggered.
C3_ColdStartSuppression ==
  (Evaluated /\ FreshStart /\ WellFormed(csv) /\ ObservedSeconds(csv) < 3600) =>
     ~(~last.was_triggered /\ triggered)

\* C4: an evaluation that goes from idle to triggered hands exactly one
\* command to system(), naming the recording that caused it, when a command
\* processor is available, and none when system(NULL) returns 0.
C4_NotificationWhenShellAvailable ==
  [][ (restarts' = restarts /\ ~triggered /\ triggered') =>
        IF last'.shell
          THEN /\ Len(commands') = Len(commands) + 1
               /\ SubSeq(commands', 1, Len(commands)) = commands
               /\ commands'[Len(commands')] =
                    << "argv[0]", ".command ", csv'[Len(csv')].datetime, ".aiff" >>
          ELSE commands' = commands ]_vars

\* a transition to triggered has handed over the command of its recording
C4_Witness ==
  /\ Evaluated
  /\ ~last.was_triggered
  /\ triggered
  /\ last.shell
  /\ Len(commands) >= 1
  /\ commands[Len(commands)][3] = csv[Len(csv)].datetime

\* C4 as stated: every transition from idle to triggered hands over exactly
\* one notification naming the recording.
C4_EveryTransitionNotifies ==
  [][ (restarts' = restarts /\ ~triggered /\ triggered') =>
        /\ Len(commands') = Len(commands) + 1
        /\ commands'[Len(commands')][3] = csv'[Len(csv')].datetime ]_vars

\* C5: an evaluation that is handed the sentinel for expected mean and stdev
\* does not leave idle, whatever the level and the return period.
C5_SentinelKeepsIdle ==
  (Evaluated /\ ~last.was_triggered /\ last.expected.from = "sentinel") => ~triggered

\* seconds the overall accumulator has observed
OverallSeconds ==
  IF version = "duty" THEN count(stat.overall_)
  ELSE IF version = "fourier" THEN history_seconds
  ELSE now - overall_tm

\* C6: expected mean and stdev come from the hourly buckets only when the
\* buckets needed have data, otherwise from the overall accumulator, and are
\* the sentinel when the overall accumulator holds less than an hour.
C6_InsufficientHistoryFallback ==
  (Evaluated /\ version \in { "duty", "fourier" } /\ WellFormed(csv)) =>
     /\ last.expected.from \in { "buckets", "overall", "sentinel" }
     /\ (last.expected.from # "buckets" /\ OverallSeconds < 3600) =>
           last.expected.from = "sentinel"

\* the process has just replayed the log that a run which started without
\* one had written
ReplayedLiveRun ==
  /\ pc = "record"
  /\ version \in { "interp", "fourier" }
  /\ restarts = 1
  /\ memo.since = 0
  /\ memo.live # << >>
  /\ Len(csv) = episodes
  /\ episodes >= 1
  /\ WellFormed(csv)

\* C7: replay of the log of a live run ends with the level, the buckets, the
\* overall accumulator and the counters the live run held.
C7_ReplayRebuildsLiveState == ReplayedLiveRun => Memory = memo.live[1]

\* the process has replayed a log that it had replayed before, with nothing
\* recorded in between
ReplayedTwice ==
  /\ pc = "record"
  /\ version = "fourier"
  /\ restarts = 1
  /\ memo.since = 0
  /\ memo.prior # << >>
  /\ Len(csv) >= 1

\* C8: a second replay of the same log from a fresh state ends with the same
\* buckets and level as the first.
C8_ReplayDeterministic ==
  ReplayedTwice => (stat = memo.prior[1].stat /\ business = memo.prior[1].business)

\* C9: an update with a negative idle or active duration returns the level
\* it was given, in the per-second loops and in both batch formulas.
C9_NegativeDurationNoOp ==
  (Evaluated /\ (last.seconds_of_silence < 0 \/ last.seconds_of_activity < 0)) =>
     business = last.before[1].business

\* C10: an episode with a negative duration leaves the level, the buckets and
\* the event and second counters as they were.
C10_MalformedEpisodeNoOp ==
  (Evaluated /\ version = "fourier"
     /\ (last.seconds_of_silence < 0 \/ last.seconds_of_activity < 0)) =>
     Memory = last.before[1]

(***************************************************************************)
(* A class or a function exercised by itself: main() stays where it is     *)
(***************************************************************************)
program == << version, return_period, decay_den, pc, now, prev_tm, overall_tm,
              business, stat, triggered, history_seconds, history_events, csv,
              stats_file, files_written_since_last_save, stats_csv_tm, stats_csv,
              commands, last, memo, episodes, restarts >>

Parked ==
  /\ version = "fourier"
  /\ return_period = 24 * 7
  /\ decay_den = 600
  /\ pc = "unit"
  /\ now = StartTime
  /\ prev_tm = StartTime
  /\ overall_tm = StartTime
  /\ stats_csv_tm = StartTime
  /\ business = 0
  /\ stat = BaselineBusinessCurve
  /\ triggered = FALSE
  /\ history_seconds = 0
  /\ history_events = 0
  /\ csv = << >>
  /\ stats_file = << >>
  /\ files_written_since_last_save = 0
  /\ stats_csv = << >>
  /\ commands = << >>
  /\ last = NoEpisode
  /\ memo = [ live |-> << >>, prior |-> << >>, since |-> 0, exits |-> 0 ]
  /\ episodes = 0
  /\ restarts = 0

(***************************************************************************)
(* BaselineBusinessCurve::push called on a curve of its own                *)
(***************************************************************************)
MaxRecords == 2

\* values of business pushed
Observations == { 25000, 312116 }

InitCurve ==
  /\ Parked
  /\ unit = [ curve |-> BaselineBusinessCurve, calls |-> 0, call |-> << >> ]

\* stat.push(x, tm_wday, tm_hour), and what it returns in either version
Record ==
  /\ pc = "unit"
  /\ unit.calls < MaxRecords
  /\ \E x \in Observations, tm_wday \in 0..6, tm_hour \in 0..23 :
       unit' = [ curve |-> BaselineBusinessCurve_push(unit.curve, x, tm_wday, tm_hour),
                 calls |-> unit.calls + 1,
                 call  |-> [ x |-> x, tm_wday |-> tm_wday, tm_hour |-> tm_hour,
                             before |-> unit.curve,
                             returned_interp  |-> push_returns_interp(tm_wday, tm_hour),
                             returned_fourier |-> push_returns_fourier(tm_wday, tm_hour) ] ]
  /\ UNCHANGED program

NextCurve == Record

SpecCurve == InitCurve /\ [][NextCurve]_vars

\* the 48 hourly buckets
Buckets == [ weekend : BOOLEAN, hour : 0..23 ]

\* C11: a push with weekday index w and hour h adds one to the count of
\* weekend[h] when w is 0 or 6 and of weekday[h] otherwise, and leaves the
\* other 47 hourly buckets as they were.
C11_BucketRouting ==
  unit.calls > 0 =>
    \A ptr \in Buckets :
      IF ptr.hour = unit.call.tm_hour
           /\ (ptr.weekend <=> unit.call.tm_wday \in { 0, 6 })
        THEN count(At(unit.curve, ptr)) = count(At(unit.call.before, ptr)) + 1
        ELSE At(unit.curve, ptr) = At(unit.call.before, ptr)

\* a Sunday 13h observation was pushed to a curve that held one already
C11_Witness ==
  /\ unit.calls = 2
  /\ unit.call.tm_wday = 0
  /\ unit.call.tm_hour = 13
  /\ count(unit.curve.weekend_[13]) = count(unit.call.before.weekend_[13]) + 1

\* C12: push returns a handle into the buckets of the observation's class:
\* in part_000 the bucket it pushed into, in part_001 the bucket of hour 0,
\* from which the bucket pushed into is tm_hour places on.
C12_ReturnedHandle ==
  unit.calls > 0 =>
    /\ unit.call.returned_fourier.hour = 0
    /\ \A ptr \in Buckets :
         count(At(unit.curve, ptr)) # count(At(unit.call.before, ptr)) =>
           /\ ptr = unit.call.returned_interp
           /\ ptr = Index(unit.call.returned_fourier, unit.call.tm_hour)

\* a push for hour 13 has returned its handles
C12_Witness ==
  /\ unit.calls > 0
  /\ unit.call.tm_hour = 13
  /\ count(At(unit.curve, unit.call.returned_interp)) = unit.calls
  /\ mean(At(unit.curve, Index(unit.call.returned_fourier, 13))) = unit.call.x

\* C12 as stated: in both versions the handle returned is the bucket that was
\* pushed into.
C12_HandleIsPushedBucket ==
  unit.calls > 0 =>
    \A ptr \in Buckets :
      count(At(unit.curve, ptr)) # count(At(unit.call.before, ptr)) =>
        /\ ptr = unit.call.returned_interp
        /\ ptr = unit.call.returned_fourier

(***************************************************************************)
(* RunningStat: an accumulator of its own, pushed to and read              *)
(***************************************************************************)
MaxPushes == 4

\* observations pushed: levels the three versions produce
StatObservations == { 0, 25000, 95502, 312116, 658094 }

InitStat ==
  /\ Parked
  /\ unit = [ acc |-> RunningStat, xs |-> << >>, read |-> << >> ]

\* acc.push(x)
Push ==
  /\ pc = "unit"
  /\ Len(unit.xs) < MaxPushes
  /\ \E x \in StatObservations :
       unit' = [ acc |-> push(unit.acc, x), xs |-> Append(unit.xs, x), read |-> << >> ]
  /\ UNCHANGED program

\* the const members: acc.count(), acc.mean(), acc.variance(), acc.stdev()
Read ==
  /\ pc = "unit"
  /\ unit.read = << >>
  /\ unit' = [ unit EXCEPT !.read = << [ count |-> count(unit.acc),
                                         mean |-> mean(unit.acc),
                                         variance |-> variance(unit.acc),
                                         stdev |-> stdev(unit.acc) ] >> ]
  /\ UNCHANGED program

NextStat ==
  \/ Push
  \/ Read

SpecStat == InitStat /\ [][NextStat]_vars

\* C13: count() is the number of push calls made on the accumulator since it
\* was constructed, and no step other than a push changes it.
C13_CountIsNumberOfPushes ==
  /\ [](count(unit.acc) = Len(unit.xs))
  /\ [](unit.read # << >> => unit.read[1].count = Len(unit.xs))
  /\ [][ count(unit'.acc) # count(unit.acc) =>
           /\ Len(unit'.xs) = Len(unit.xs) + 1
           /\ count(unit'.acc) = count(unit.acc) + 1 ]_vars

\* the accumulator was read after three pushes
C13_Witness == Len(unit.xs) = 3 /\ unit.read # << >> /\ unit.read[1].count = 3

\* C14: with count 0 the mean and the variance are 0; with count 1 the
\* variance is 0 and the mean is the one observation.
C14_ZeroAndOneSample ==
  unit.read # << >> =>
    /\ Len(unit.xs) = 0 => (unit.read[1].mean = 0 /\ unit.read[1].variance = 0)
    /\ Len(unit.xs) = 1 => (unit.read[1].mean = unit.xs[1] /\ unit.read[1].variance = 0)

\* an accumulator with the single observation 3.12116 was read
C14_Witness ==
  /\ unit.read # << >>
  /\ unit.xs = << 312116 >>
  /\ unit.read[1].mean = 312116
  /\ unit.read[1].variance = 0

\* sum of a sequence of numbers
RECURSIVE Sum(_)
Sum(xs) == IF xs = << >> THEN 0 ELSE xs[1] + Sum(Tail(xs))

\* the sample mean and the Bessel-corrected sample variance in two passes
TwoPassMean(xs) == IF Len(xs) = 0 THEN 0 ELSE DivInt(Sum(xs), Len(xs))

TwoPassVariance(xs) ==
  IF Len(xs) < 2 THEN 0
  ELSE DivInt(Sum([ i \in 1..Len(xs) |-> Mul(xs[i] - TwoPassMean(xs), xs[i] - TwoPassMean(xs)) ]),
              Len(xs) - 1)

\* rounding allowed between the running and the two-pass result: 10^-4
Tolerance == Scale \div 10^4

\* C15: after all pushes the mean and the Bessel-corrected variance are, up
\* to rounding, the two-pass sample mean and sample variance of the
\* observations; the two-pass values do not depend on the order, so neither
\* does the result beyond the rounding.
C15_WelfordEqualsTwoPass ==
  unit.read # << >> =>
    /\ Abs(unit.read[1].mean - TwoPassMean(unit.xs)) <= Tolerance
    /\ Abs(unit.read[1].variance - TwoPassVariance(unit.xs)) <= Tolerance

\* four different observations were pushed, largest first, and read
C15_Witness ==
  /\ unit.read # << >>
  /\ unit.xs = << 658094, 0, 312116, 25000 >>
  /\ unit.read[1].variance > Scale

(***************************************************************************)
(* standard_normal_inverse_cdf called with arguments in and around (0, 1)  *)
(***************************************************************************)
\* arguments: the 64ths from -1/8 to 9/8, the two smallest distances from an
\* end, and two far outside
Probabilities ==
  { k * (PScale \div 64) : k \in -8..72 } \cup { 1, PScale - 1, -PScale, 2 * PScale }

InitCdf ==
  /\ Parked
  /\ \E p \in Probabilities : unit = [ p |-> p, returned |-> << >>, mirrored |-> << >> ]

\* standard_normal_inverse_cdf(p), and standard_normal_inverse_cdf(1 - p)
Invert ==
  /\ pc = "unit"
  /\ unit.returned = << >>
  /\ unit' = [ unit EXCEPT !.returned = << standard_normal_inverse_cdf(unit.p) >>,
                           !.mirrored = << standard_normal_inverse_cdf(PScale - unit.p) >> ]
  /\ UNCHANGED program

NextCdf == Invert

SpecCdf == InitCdf /\ [][NextCdf]_vars

\* C16: the inverse cdf returns 0 for every p <= 0 and every p >= 1, and the
\* value of the rational approximation, with the sign of p - 1/2, only for p
\* strictly between 0 and 1.
C16_ZeroOutsideOpenInterval ==
  unit.returned # << >> =>
    IF unit.p <= 0 \/ unit.p >= PScale
      THEN unit.returned[1] = 0
      ELSE Abs(unit.returned[1]) =
             Abs(rational_approximation(Sqrt(-2 * Log(Min(unit.p, PScale - unit.p)))))

\* the function was called with p = 1 and returned 0
C16_Witness == unit.returned = << 0 >> /\ unit.p = PScale

\* the error bound of the approximation, 4.5 * 10^-4
CdfTolerance == (45 * Scale) \div 10^5

\* C17: for p strictly between 0 and 1 the inverse cdf of p is minus the
\* inverse cdf of 1 - p, and at 1/2 it is 0, up to the approximation's error.
C17_Antisymmetric ==
  (unit.returned # << >> /\ unit.p > 0 /\ unit.p < PScale) =>
     /\ Abs(unit.returned[1] + unit.mirrored[1]) <= CdfTolerance
     /\ unit.p = PScale \div 2 => Abs(unit.returned[1]) <= CdfTolerance

\* p = 1/64: a value under -2 and its mirror image over 2
C17_Witness ==
  /\ unit.p = PScale \div 64
  /\ unit.returned # << >>
  /\ unit.returned[1] < -2 * Scale
  /\ unit.mirrored[1] > 2 * Scale

(***************************************************************************)
(* Properties of the recording loop, continued                             *)
(***************************************************************************)
\* p of the evaluation just made, from the counters it left
LastP ==
  IF version = "fourier" THEN p_fourier(history_seconds, history_events, return_period)
  ELSE IF version = "interp" THEN p_interp(mean(stat.overall_), return_period)
  ELSE p_duty(count(stat.overall_), history_events, return_period)

\* C18: in every evaluation that starts idle the threshold is expected mean
\* + z * expected stdev with z the inverse cdf of 1 - p, and 1 - p is
\* strictly between 0 and 1 when the inverse cdf is applied to it.
C18_ThresholdArgumentInsideInterval ==
  (Evaluated /\ ~last.was_triggered /\ WellFormed(csv)) =>
     /\ PScale - LastP > 0
     /\ PScale - LastP < PScale
     /\ last.threshold = last.expected.mean
                           + Mul(standard_normal_inverse_cdf(PScale - LastP),
                                 last.expected.stdev)

(***************************************************************************)
(* The duty-cycle variant under every decay the command line accepts       *)
(***************************************************************************)
\* argv[3]: a of decay = 1/a; 600 is the default
Decays == { 1, 60, 600 }

InitDecay ==
  /\ version = "duty"
  /\ return_period \in ReturnPeriods
  /\ decay_den \in Decays
  /\ pc = "replay"
  /\ now = StartTime
  /\ prev_tm = StartTime
  /\ overall_tm = StartTime
  /\ stats_csv_tm = StartTime
  /\ business = 0
  /\ stat = BaselineBusinessCurve
  /\ triggered = FALSE
  /\ history_seconds = 0
  /\ history_events = 0
  /\ csv = << >>
  /\ stats_file \in { << >>, << SavedStatistics >> }
  /\ files_written_since_last_save = 0
  /\ stats_csv = << >>
  /\ commands = << >>
  /\ last = NoEpisode
  /\ memo = [ live |-> << >>, prior |-> << >>, since |-> 0, exits |-> 0 ]
  /\ episodes = 0
  /\ restarts = 0
  /\ unit = << >>

NextDecay ==
  \/ ReadStatistics
  \/ DutyEpisode
  \/ Restart

SpecDecay == InitDecay /\ [][NextDecay]_vars

\* C19: started from level 0, the level is at least 0 and below 1 after any
\* sequence of episodes with non-negative durations, for every decay 1/a
\* with a a positive integer.
C19_LevelInUnitInterval ==
  WellFormed(csv) => (0 <= business /\ business < Scale)

\* seconds of the recurrence taken in one stretch
Stretch == 13

\* magnetophon.cpp lines 821-833 and README lines 28-38: the level after
\* n <= Stretch seconds, one second after
\* the other; towards 1 while the sound is on, towards 0 while it is off
RECURSIVE Relaxed(_, _, _, _)
Relaxed(level, n, on, a) ==
  IF n <= 0 THEN level
  ELSE Only({ Relaxed(next, n - 1, on, a)
              : next \in { IF on THEN level + DivInt(Scale - level, a)
                           ELSE level - DivInt(level, a) } })

\* the level after n <= Stretch * Stretch seconds, a stretch after the other
RECURSIVE Stretches(_, _, _, _)
Stretches(level, n, on, a) ==
  IF n <= Stretch THEN Relaxed(level, n, on, a)
  ELSE Only({ Stretches(next, n - Stretch, on, a)
              : next \in { Relaxed(level, Stretch, on, a) } })

\* the level after n seconds
RECURSIVE PerSecond(_, _, _, _)
PerSecond(level, n, on, a) ==
  IF n <= Stretch * Stretch THEN Stretches(level, n, on, a)
  ELSE Only({ PerSecond(next, n - Stretch * Stretch, on, a)
              : next \in { Stretches(level, Stretch * Stretch, on, a) } })

\* the level after the seconds of the episodes in lines, in their order
RECURSIVE Recurrence(_, _, _)
Recurrence(level, lines, a) ==
  IF lines = << >> THEN level
  ELSE Only({ Recurrence(next, Tail(lines), a)
              : next \in { PerSecond(PerSecond(level, lines[1].seconds_off, FALSE, a),
                                     lines[1].seconds_on, TRUE, a) } })

\* the last episode had no negative duration
LastWellFormed ==
  Evaluated /\ last.seconds_of_silence >= 0 /\ last.seconds_of_activity >= 0

\* C20: an episode applies the idle relaxation once for each of its idle
\* seconds and then the active relaxation once for each of its active
\* seconds, and the level after a sequence of episodes is the per-second
\* recurrence over the seconds of all of them in arrival order.
C20_IdleThenActivePerSecond ==
  /\ LastWellFormed =>
       /\ business = PerSecond(PerSecond(last.before[1].business,
                                         last.seconds_of_silence, FALSE, decay_den),
                               last.seconds_of_activity, TRUE, decay_den)
       /\ count(stat.overall_) = count(last.before[1].stat.overall_)
                                   + last.seconds_of_silence + last.seconds_of_activity
  /\ (restarts = 0 /\ WellFormed(csv)) => business = Recurrence(0, csv, decay_den)

\* a second episode with idle and active seconds, where active-first would
\* have given another level
C20_Witness ==
  /\ LastWellFormed
  /\ restarts = 0
  /\ WellFormed(csv)
  /\ Len(csv) = 2
  /\ decay_den = 600
  /\ last.seconds_of_silence > 0
  /\ last.seconds_of_activity > 0
  /\ last.before[1].business > 0
  /\ business # PerSecond(PerSecond(last.before[1].business,
                                    last.seconds_of_activity, TRUE, decay_den),
                          last.seconds_of_silence, FALSE, decay_den)

(***************************************************************************)
(* The low-pass reconstruction on baselines that are flat within a class   *)
(***************************************************************************)
\* hourly means a class is filled with
Levels == { 0, 1, 628, 25000, 50000, 99999 }

\* local wall-clock seconds of the week at which the estimate is asked for
Moments ==
  { d * Day + h * 3600 + m * 60 + sec
    : d \in { 0, 3, 6 }, h \in { 0, 7, 12, 23 }, m \in { 0, 29, 30, 59 },
      sec \in { 0, 17, 59 } }

\* one observation c in every weekday bucket and one observation d in every
\* weekend bucket
Flat(c, d) ==
  [ BaselineBusinessCurve EXCEPT
      !.weekday_ = [ h \in 0..23 |-> push(RunningStat, c) ],
      !.weekend_ = [ h \in 0..23 |-> push(RunningStat, d) ] ]

InitFlat ==
  /\ Parked
  /\ \E c \in Levels, d \in Levels :
       unit = [ weekday |-> c, weekend |-> d, tm |-> << >>, expected |-> << >> ]

\* part_001 lines 444-482 on the flat baseline
Reconstruct ==
  /\ pc = "unit"
  /\ unit.tm = << >>
  /\ \E w \in Moments :
     \E tm \in { Fields(w, FALSE) } :
       unit' = [ unit EXCEPT !.tm = << tm >>,
                             !.expected = << Expected_fourier(Flat(unit.weekday, unit.weekend),
                                                              tm) >> ]
  /\ UNCHANGED program

NextFlat == Reconstruct

SpecFlat == InitFlat /\ [][NextFlat]_vars

\* C21: when all 24 hourly means of a class are the same constant c, the
\* forward transform over k = 0, 2, 4, 6 followed by the inverse transform
\* returns c at every time of day.
C21_ConstantPreserved ==
  unit.tm # << >> =>
    /\ unit.expected[1].from = "buckets"
    /\ Abs(unit.expected[1].mean
             - (IF unit.tm[1].tm_wday \in { 0, 6 } THEN unit.weekend ELSE unit.weekday))
         <= Tolerance

\* a weekend reconstruction off the hour, with another constant on weekdays
C21_Witness ==
  /\ unit.tm # << >>
  /\ unit.tm[1].tm_wday = 6
  /\ unit.tm[1].tm_min = 29
  /\ unit.tm[1].tm_sec = 17
  /\ unit.weekend = 25000
  /\ unit.weekday = 99999
  /\ Abs(unit.expected[1].mean - 25000) <= Tolerance

(***************************************************************************)
(* The interpolation between hourly buckets at every minute of the week    *)
(***************************************************************************)
\* rspa, rspb, weight_a and weight_b of a recording that starts at tm
Selection(tm) ==
  [ tm |-> tm, rspa |-> OwnBucket(tm), rspb |-> NeighbourBucket(tm),
    weight_a |-> weight_a(tm), weight_b |-> weight_b(tm) ]

InitWeights ==
  /\ Parked
  /\ \E tm_wday \in 0..6 : unit = [ tm_wday |-> tm_wday, at |-> << >>, next |-> << >> ]

\* part_000 lines 434-453 and magnetophon.cpp lines 836-855 for a recording
\* that starts at a minute of the day, and for one that starts a minute later
Select ==
  /\ pc = "unit"
  /\ unit.at = << >>
  /\ \E tm_hour \in 0..23, tm_min \in 0..59 :
     \E w \in { unit.tm_wday * Day + tm_hour * 3600 + tm_min * 60 } :
       unit' = [ unit EXCEPT !.at = << Selection(Fields(w, FALSE)) >>,
                             !.next = << Selection(Fields(w + 60, FALSE)) >> ]
  /\ UNCHANGED program

NextWeights == Select

SpecWeights == InitWeights /\ [][NextWeights]_vars

\* the day of the week the neighbouring hour lies in
NeighbourDay(tm) ==
  IF tm.tm_min >= 30 /\ tm.tm_hour = 23 THEN (tm.tm_wday + 1) % 7
  ELSE IF tm.tm_min < 30 /\ tm.tm_hour = 0 THEN (tm.tm_wday + 6) % 7
  ELSE tm.tm_wday

\* C22: the neighbour is the bucket of the next hour from minute 30 on and of
\* the previous hour before, in the class of the calendar day that hour lies
\* in: the own class except after 23:30, where it is weekend iff the weekday
\* index is 5 or 6, and before 00:30, where it is weekend iff it is 0 or 1.
C22_NeighbourSelection ==
  unit.at # << >> =>
    LET tm == unit.at[1].tm IN
      /\ unit.at[1].rspb.hour = (IF tm.tm_min >= 30 THEN (tm.tm_hour + 1) % 24
                                 ELSE (tm.tm_hour + 23) % 24)
      /\ unit.at[1].rspb.weekend = (NeighbourDay(tm) \in { 0, 6 })
      /\ (tm.tm_min >= 30 /\ tm.tm_hour = 23) =>
           (unit.at[1].rspb.weekend <=> tm.tm_wday \in { 5, 6 })
      /\ (tm.tm_min < 30 /\ tm.tm_hour = 0) =>
           (unit.at[1].rspb.weekend <=> tm.tm_wday \in { 0, 1 })
      /\ ~(tm.tm_min >= 30 /\ tm.tm_hour = 23) /\ ~(tm.tm_min < 30 /\ tm.tm_hour = 0) =>
           unit.at[1].rspb.weekend = unit.at[1].rspa.weekend

\* Friday 23:40: the neighbour is the weekend bucket of hour 0
C22_Witness ==
  /\ unit.at # << >>
  /\ unit.at[1].tm.tm_wday = 5
  /\ unit.at[1].tm.tm_hour = 23
  /\ unit.at[1].tm.tm_min = 40
  /\ unit.at[1].rspa = [ weekend |-> FALSE, hour |-> 23 ]
  /\ unit.at[1].rspb = [ weekend |-> TRUE, hour |-> 0 ]

\* C23: weight_a is (90 - minute)/60 going forward and (31 + minute)/60 going
\* backward and weight_b is 1 - weight_a; at every minute both are in [0,1],
\* they sum to 1, and weight_a is not below weight_b.
C23_Weights ==
  unit.at # << >> =>
    LET tm == unit.at[1].tm
        wa == unit.at[1].weight_a
        wb == unit.at[1].weight_b
    IN  /\ wa = (IF tm.tm_min >= 30 THEN Ratio(90 - tm.tm_min, 60, 5)
                 ELSE Ratio(31 + tm.tm_min, 60, 5))
        /\ wb = Scale - wa
        /\ 0 <= wa /\ wa <= Scale
        /\ 0 <= wb /\ wb <= Scale
        /\ wa + wb = Scale
        /\ wa >= wb

\* minute 30, where the own bucket has all the weight
C23_Witness ==
  /\ unit.at # << >>
  /\ unit.at[1].tm.tm_min = 30
  /\ unit.at[1].weight_a = Scale
  /\ unit.at[1].weight_b = 0

\* the weight a selection places on the hourly bucket ptr
WeightOn(sel, ptr) ==
  (IF sel.rspa = ptr THEN sel.weight_a ELSE 0)
    + (IF sel.rspb = ptr THEN sel.weight_b ELSE 0)

\* 1/60, and one unit for the rounding of the two weights
Sixtieth == Scale \div 60 + 1

\* the largest change of a bucket's weight from a minute to the next
Jump ==
  Only({ Max(Abs(WeightOn(unit.next[1], a) - WeightOn(unit.at[1], a)),
             Abs(WeightOn(unit.next[1], b) - WeightOn(unit.at[1], b)))
         : a \in { unit.at[1].rspa }, b \in { unit.at[1].rspb } })

\* C24 as stated: from any minute to the next, the hour boundary and the
\* mid-hour change of neighbour included, the weight placed on each hourly
\* bucket changes by at most 1/60.
C24_WeightStepAtMostSixtieth ==
  unit.at # << >> =>
    \A ptr \in Buckets :
      Abs(WeightOn(unit.next[1], ptr) - WeightOn(unit.at[1], ptr)) <= Sixtieth

\* C24: from any minute to the next the weight placed on each hourly bucket
\* changes by at most 1/60 within an hour, not at all at the mid-hour change
\* of neighbour, and by at most 2/60 across the hour boundary.
C24_WeightStepBounded ==
  unit.at # << >> =>
    \A ptr \in Buckets :
      LET step == Abs(WeightOn(unit.next[1], ptr) - WeightOn(unit.at[1], ptr)) IN
        IF unit.at[1].tm.tm_min = 59 THEN step <= 2 * Sixtieth
        ELSE IF unit.at[1].tm.tm_min = 29 THEN step = 0
        ELSE step <= Sixtieth

\* Tuesday 09:59 to 10:00: the weight of hour 9 goes from 31/60 to 29/60
C24_Witness ==
  /\ unit.at # << >>
  /\ unit.at[1].tm.tm_wday = 2
  /\ unit.at[1].tm.tm_hour = 9
  /\ unit.at[1].tm.tm_min = 59
  /\ unit.next[1].rspa = [ weekend |-> FALSE, hour |-> 10 ]
  /\ unit.next[1].rspb = unit.at[1].rspa
  /\ WeightOn(unit.at[1], unit.at[1].rspa) = Ratio(31, 60, 5)
  /\ WeightOn(unit.next[1], unit.at[1].rspa) = Scale - Ratio(31, 60, 5)
  /\ Jump > Sixtieth

(***************************************************************************)
(* The recording cycle of part_001: the main thread, which sets up and     *)
(* starts the audio queue, polls mState once a second, stops and disposes  *)
(* the queue, closes the file and processes the episode; and the audio     *)
(* queue's thread, which calls HandleInputBuffer once for every buffer.    *)
(* unit holds aqData and the position of the main thread.  A call of       *)
(* HandleInputBuffer that ends a recording is two steps, the assignment of *)
(* magnitophonDone and the rest, so that the main thread can see Done in   *)
(* between.  AudioQueueStop with inImmediate = true is synchronous: it     *)
(* returns after the callback in progress.                                 *)
(***************************************************************************)
MaxCycles == 2
\* buffers of one cycle, those that change the recorder state not counted
MaxCallbacks == 5

SampleRate == 44100

\* samples in a buffer of half a second
BufferSamples == SampleRate \div 2

\* buffers that pass between two calls of HandleInputBuffer the model follows:
\* the next one, or a minute of silent ones while waiting
Gaps == { 1, 121 }

\* the calls the main thread has made on the queue and the file in this cycle
Finalized ==
  << "AudioQueueStart", "AudioQueueStop", "AudioQueueDispose", "AudioFileClose" >>

\* the audio queue calls HandleInputBuffer
Running(u) == u.calls = << "AudioQueueStart" >>

\* while (aqData.mState != magnitophonDone)
Exit(u) == u.mState = "Done"

InitCycle ==
  /\ version = "fourier"
  /\ return_period \in ReturnPeriods
  /\ decay_den = 600
  /\ pc = "record"
  /\ now = StartTime
  /\ prev_tm = StartTime
  /\ overall_tm = StartTime
  /\ stats_csv_tm = StartTime
  /\ business = 0
  /\ stat = BaselineBusinessCurve
  /\ triggered = FALSE
  /\ history_seconds = 0
  /\ history_events = 0
  /\ csv = << >>
  /\ stats_file = << >>
  /\ files_written_since_last_save = 0
  /\ stats_csv = << >>
  /\ commands = << >>
  /\ last = NoEpisode
  /\ memo = [ live |-> << >>, prior |-> << >>, since |-> 0, exits |-> 0 ]
  /\ episodes = 0
  /\ restarts = 0
  /\ unit = [ at |-> "top", iteration |-> 0, calls |-> << >>, enqueued |-> 0,
              mState |-> "Waiting", mRecordingStartTime |-> 0, stamped |-> 0,
              mRecordingLength |-> 0, origin |-> StartTime, ticks |-> 0,
              callbacks |-> 0, starts |-> << >>, mCurrentPacket |-> 0,
              inBuffer |-> << >>, in_callback |-> FALSE, writes |-> 0,
              conversions |-> 0 ]

\* a cycle started with the episode of the previous one still to process
StartCycle_Unprocessed ==
  /\ unit.at \in { "top", "collect" }
  /\ unit.iteration < MaxCycles
  /\ unit' = [ unit EXCEPT !.at = "sleep",
                           !.iteration = @ + 1,
                           !.calls = << "AudioQueueStart" >>,
                           !.enqueued = 3,
                           !.mState = "Waiting",
                           !.origin = now,
                           !.ticks = 0,
                           !.callbacks = 0,
                           !.mCurrentPacket = 0,
                           !.inBuffer = << >>,
                           !.writes = 0,
                           !.conversions = 0 ]
  /\ UNCHANGED program

\* part_001 lines 325-406: a new aqData, whose mRecordingStartTime and
\* mRecordingLength hold whatever the stack holds, the queue, the file, the
\* three buffers, mState, and AudioQueueStart
StartCycle ==
  /\ unit.at \in { "top", "collect" }
  /\ episodes = unit.iteration
  /\ unit.iteration < MaxCycles
  /\ \E left_over \in BOOLEAN :
       unit' = [ unit EXCEPT !.at = "sleep",
                             !.iteration = @ + 1,
                             !.calls = << "AudioQueueStart" >>,
                             !.enqueued = 3,
                             !.mState = "Waiting",
                             !.mRecordingStartTime = IF left_over THEN @ ELSE -1,
                             !.mRecordingLength = IF left_over THEN @ ELSE -1,
                             !.origin = now,
                             !.ticks = 0,
                             !.callbacks = 0,
                             !.mCurrentPacket = 0,
                             !.inBuffer = << >>,
                             !.writes = 0,
                             !.conversions = 0 ]
  /\ UNCHANGED program

\* a quiet buffer ending the wait as well
NextState_QuietEnds(mState, empty, loud) ==
  IF empty \/ mState = "Done" THEN mState
  ELSE IF loud THEN "Recording"
  ELSE "Done"

\* a loud buffer resuming a recording that is done
NextState_Resumes(mState, empty, loud) ==
  IF empty THEN mState
  ELSE IF loud THEN "Recording"
  ELSE IF mState = "Recording" THEN "Done"
  ELSE mState

\* a quiet buffer leaving the recording open
NextState_NeverDone(mState, empty, loud) ==
  IF empty \/ mState = "Done" THEN mState
  ELSE IF loud THEN "Recording"
  ELSE mState

\* part_001 lines 146-173: mState after a buffer that holds no byte or some,
\* with stat.stdev() over mRmsThreshold or not
NextState(mState, empty, loud) ==
  IF empty \/ mState = "Done" THEN mState
  ELSE IF loud THEN "Recording"
  ELSE IF mState = "Recording" THEN "Done"
  ELSE mState

\* part_001 lines 117-186, for a buffer of mAudioDataByteSize bytes whose
\* samples are over the threshold or not, with AudioFileWritePackets
\* returning noErr or not; up to line 173 when the buffer ends the recording
HandleInputBuffer ==
  /\ Running(unit)
  /\ unit.enqueued > 0
  /\ ~unit.in_callback
  /\ \E empty \in BOOLEAN, loud \in BOOLEAN, noErr \in BOOLEAN, gap \in Gaps :
       /\ (gap > 1) => (unit.mState = "Waiting" /\ ~loud /\ ~empty /\ noErr)
       /\ (empty \/ ~loud) => noErr
       /\ empty => ~loud
       /\ \E time \in { unit.origin + (unit.ticks + gap) \div 2 } :
          \E begins \in { ~empty /\ loud /\ unit.mState = "Waiting" } :
          \E write \in { ~empty /\ loud /\ unit.mState # "Done" } :
          \E mState \in { NextState(unit.mState, empty, loud) } :
            /\ unit.callbacks < MaxCallbacks \/ mState # unit.mState
            /\ unit' = [ unit EXCEPT
                 !.ticks = @ + gap,
                 !.callbacks = @ + 1,
                 !.inBuffer = << [ empty |-> empty, loud |-> loud, noErr |-> noErr ] >>,
                 !.mState = mState,
                 !.mRecordingStartTime = IF begins THEN time ELSE @,
                 !.stamped = IF begins THEN unit.iteration ELSE @,
                 !.starts = IF begins THEN Append(@, time) ELSE @,
                 !.writes = IF write THEN @ + 1 ELSE @,
                 !.mCurrentPacket = IF write /\ noErr THEN @ + BufferSamples ELSE @,
                 !.mRecordingLength =
                    IF write
                      THEN (IF begins THEN 0 ELSE @) + (IF noErr THEN BufferSamples ELSE 0)
                    ELSE @,
                 !.in_callback = (mState = "Done" /\ unit.mState = "Recording"),
                 !.enqueued = IF mState = "Done" /\ unit.mState = "Done" THEN @ - 1 ELSE @ ]
  /\ UNCHANGED program

\* part_001 lines 174-183: the rest of the call that ended the recording
Convert ==
  /\ unit.in_callback
  /\ unit' = [ unit EXCEPT !.mRecordingLength = @ \div SampleRate,
                           !.conversions = @ + 1,
                           !.in_callback = FALSE,
                           !.enqueued = @ - 1 ]
  /\ UNCHANGED program

\* part_001 lines 408-410: the pass of the do ... while that leaves it
Poll ==
  /\ unit.at = "sleep"
  /\ Exit(unit)
  /\ unit' = [ unit EXCEPT !.at = "stop" ]
  /\ UNCHANGED program

\* the queue left running
AudioQueueStop_Omitted ==
  /\ unit.at = "stop"
  /\ unit' = [ unit EXCEPT !.at = "dispose" ]
  /\ UNCHANGED program

\* a stop that returns while the callback is still running
AudioQueueStop_Asynchronous ==
  /\ unit.at = "stop"
  /\ unit' = [ unit EXCEPT !.at = "dispose", !.calls = Append(@, "AudioQueueStop") ]
  /\ UNCHANGED program

\* part_001 line 412
AudioQueueStop ==
  /\ unit.at = "stop"
  /\ ~unit.in_callback
  /\ unit' = [ unit EXCEPT !.at = "dispose", !.calls = Append(@, "AudioQueueStop") ]
  /\ UNCHANGED program

\* part_001 line 413
AudioQueueDispose ==
  /\ unit.at = "dispose"
  /\ unit' = [ unit EXCEPT !.at = "close", !.calls = Append(@, "AudioQueueDispose"),
                           !.enqueued = 0 ]
  /\ UNCHANGED program

\* part_001 line 414
AudioFileClose ==
  /\ unit.at = "close"
  /\ unit' = [ unit EXCEPT !.at = "collect", !.calls = Append(@, "AudioFileClose") ]
  /\ UNCHANGED program

\* part_001 lines 416-572 with what the callback left in aqData
CycleEpisode ==
  /\ pc = "record"
  /\ unit.at = "collect"
  /\ episodes = unit.iteration - 1
  /\ \E start \in { unit.mRecordingStartTime } :
     \E tmp \in { Localtime(start) } :
     \E m \in { CollectFourier(Memory, start - prev_tm, unit.mRecordingLength, tmp) } :
     \E expected \in { Expected_fourier(m.stat, tmp) } :
     \E d \in { Decide(triggered, m.business, expected,
                       p_fourier(m.history_seconds, m.history_events, return_period),
                       10001 * Scale) } :
       Conclude(start, tmp, unit.mRecordingLength, start - prev_tm, m, expected, d)

NextCycle ==
  \/ StartCycle
  \/ HandleInputBuffer
  \/ Convert
  \/ Poll
  \/ AudioQueueStop
  \/ AudioQueueDispose
  \/ AudioFileClose
  \/ CycleEpisode

SpecCycle == InitCycle /\ [][NextCycle]_vars

\* C25: in every recording cycle the statistics step runs once, and only
\* after the recorder reached Done, the queue was stopped and disposed and the
\* file closed, on a start time the callback set in that same cycle; a new
\* cycle begins only after the step; the episodes are logged in the order
\* their recordings started.
C25_StatisticsOncePerCycle ==
  /\ [](unit.iteration - 1 <= episodes /\ episodes <= unit.iteration)
  /\ [][ episodes' # episodes =>
           /\ episodes' = episodes + 1
           /\ episodes = unit.iteration - 1
           /\ unit.mState = "Done"
           /\ unit.calls = Finalized
           /\ unit.stamped = unit.iteration
           /\ unit.mRecordingStartTime = unit.starts[unit.iteration]
           /\ last'.fileName = Strftime(Localtime(unit.mRecordingStartTime)) ]_vars
  /\ [][ unit'.iteration # unit.iteration => episodes = unit.iteration ]_vars
  /\ [](/\ Len(csv) = episodes
        /\ \A i \in 1..Len(csv) : csv[i].datetime = Strftime(Localtime(unit.starts[i]))
        /\ \A i, j \in 1..Len(unit.starts) : i < j => unit.starts[i] <= unit.starts[j])

\* two cycles were recorded and processed
C25_Witness ==
  /\ unit.iteration = 2
  /\ episodes = 2
  /\ unit.calls = Finalized
  /\ Len(csv) = 2
  /\ unit.starts[1] < unit.starts[2]
  /\ csv[2].seconds_on > 0

\* program state the statistics step works on
Core == << business, stat, history_seconds, history_events, triggered >>

\* C26: the queue of a cycle is stopped and disposed before the episode of
\* the cycle is processed, the queue of the next cycle is started only after
\* that processing, evaluation and notification included, has finished, and a
\* call of HandleInputBuffer leaves the level, the baseline, the two counters
\* and the trigger state as they are.
C26_EpisodesDoNotOverlap ==
  /\ [][ Core' # Core =>
           /\ ~Running(unit)
           /\ unit.enqueued = 0
           /\ unit.calls = Finalized
           /\ unit' = unit ]_vars
  /\ [][ (Running(unit') /\ ~Running(unit)) =>
           /\ episodes = unit.iteration
           /\ Len(csv) = unit.iteration
           /\ unit.iteration > 0 => (last.valid /\ unit.calls = Finalized)
           /\ Core' = Core /\ commands' = commands ]_vars
  /\ [][ unit'.callbacks = unit.callbacks + 1 =>
           (Core' = Core /\ commands' = commands /\ csv' = csv) ]_vars
  /\ [](Running(unit) => episodes = unit.iteration - 1)

\* the queue of the second cycle is running and has called back, after the
\* first episode was processed
C26_Witness ==
  /\ Running(unit)
  /\ unit.iteration = 2
  /\ unit.callbacks > 0
  /\ unit.mState = "Recording"
  /\ episodes = 1
  /\ last.valid
  /\ business > 0

(***************************************************************************)
(* Properties of the recording loop: the order of the steps of an episode  *)
(***************************************************************************)
\* struct tm* tmp of the last evaluation, as far as the day and the time of
\* day go
LastTm == Fields(last.fileName, FALSE)

\* C27: for every live episode the level is updated first, the updated level
\* is what is pushed to the baseline, the counters are advanced, the expected
\* mean and stdev come from the baseline that holds this push, the threshold
\* comes from these and the advanced counters, and the trigger is evaluated
\* on the updated level.
C27_StepOrder ==
  (Evaluated /\ version = "fourier") =>
    /\ business = business_update_fourier(last.before[1].business,
                                          last.seconds_of_activity,
                                          last.seconds_of_silence, decay_den)
    /\ stat = BaselineBusinessCurve_push(last.before[1].stat, business,
                                         LastTm.tm_wday, LastTm.tm_hour)
    /\ history_seconds = last.before[1].history_seconds
                           + last.seconds_of_silence + last.seconds_of_activity
    /\ history_events = last.before[1].history_events + 1
    /\ last.expected = Expected_fourier(stat, LastTm)
    /\ ~last.was_triggered =>
         /\ last.threshold =
              last.expected.mean
                + Mul(standard_normal_inverse_cdf(
                        PScale - p_fourier(history_seconds, history_events, return_period)),
                      last.expected.stdev)
         /\ triggered <=> business > last.threshold
         /\ last.notify <=> business > last.threshold
    /\ last.was_triggered =>
         (triggered <=> ~(business < last.expected.mean + last.expected.stdev))

\* an evaluation from idle on a full class of buckets, where the baseline of
\* before the push gives another expectation and the level has changed
C27_Witness ==
  /\ Evaluated
  /\ version = "fourier"
  /\ ~last.was_triggered
  /\ last.expected.from = "buckets"
  /\ last.expected # Expected_fourier(last.before[1].stat, LastTm)
  /\ business # last.before[1].business
  /\ last.seconds_of_silence >= 0
  /\ last.seconds_of_activity >= 0

\* C28: in every evaluation made in Idle the entry threshold is at least the
\* exit level, expected mean + expected stdev (the z used is at least 1).
C28_EntryThresholdAtLeastExitLevel ==
  (Evaluated /\ version = "fourier" /\ ~last.was_triggered /\ WellFormed(csv)) =>
     last.threshold >= last.expected.mean + last.expected.stdev

(***************************************************************************)
(* Properties of start-up: replay against a live run of the same episodes  *)
(***************************************************************************)
\* part_001 lines 429-515 for the episode of one line of the log, from the
\* memory and trigger state st
LiveLine(st, line) ==
  Only({ [ business |-> m.business, stat |-> m.stat,
           history_seconds |-> m.history_seconds,
           history_events |-> m.history_events,
           triggered |-> Decide(st.triggered, m.business, Expected_fourier(m.stat, tmp),
                                p_fourier(m.history_seconds, m.history_events,
                                          return_period),
                                10001 * Scale).triggered ]
         : tmp \in { Fields(line.datetime, FALSE) },
           m \in { CollectFourier(st, line.seconds_off, line.seconds_on,
                                  Fields(line.datetime, FALSE)) } })

\* the episodes of lines i .. j, one after the other
RECURSIVE LiveFrom(_, _, _, _)
LiveFrom(st, lines, i, j) ==
  IF i > j THEN st
  ELSE IF i = j THEN LiveLine(st, lines[i])
  ELSE Only({ LiveFrom(half, lines, (i + j) \div 2 + 1, j)
              : half \in { LiveFrom(st, lines, i, (i + j) \div 2) } })

\* the state a run that starts without files is in after the episodes of lines
LiveOver(lines) ==
  LiveFrom([ business |-> 0, stat |-> BaselineBusinessCurve, history_seconds |-> 0,
             history_events |-> 0, triggered |-> FALSE ], lines, 1, Len(lines))

\* C29: after the replay at start-up the trigger state is the one a live run
\* over the episodes of the log would be in.
C29_ReplayEvaluatesTrigger ==
  (pc = "record" /\ version = "fourier" /\ memo.since = 0 /\ last = NoEpisode
     /\ WellFormed(csv)) =>
     triggered = LiveOver(csv).triggered

(***************************************************************************)
(* magnetophon.stats over a run long enough for the statistics to be saved *)
(***************************************************************************)
MaxEpisodes == 23

\* (seconds until the recording starts, mRecordingLength in seconds)
BriefRecordings == { << 3, 2 >> }

InitSave ==
  /\ version = "duty"
  /\ return_period = 24 * 7
  /\ decay_den = 600
  /\ pc = "replay"
  /\ now = StartTime
  /\ prev_tm = StartTime
  /\ overall_tm = StartTime
  /\ stats_csv_tm = StartTime
  /\ business = 0
  /\ stat = BaselineBusinessCurve
  /\ triggered = FALSE
  /\ history_seconds = 0
  /\ history_events = 0
  /\ csv = << >>
  /\ stats_file \in { << >>, << SavedStatistics >> }
  /\ files_written_since_last_save = 0
  /\ stats_csv = << >>
  /\ commands = << >>
  /\ last = NoEpisode
  /\ memo = [ live |-> << >>, prior |-> << >>, since |-> 0, exits |-> 0 ]
  /\ episodes = 0
  /\ restarts = 0
  /\ unit = << >>

\* magnetophon.cpp lines 796-975 for a brief recording
BriefEpisode ==
  /\ pc = "record"
  /\ version = "duty"
  /\ episodes < MaxEpisodes
  /\ \E rec \in BriefRecordings :
     \E tmp \in { Localtime(prev_tm + rec[1]) } :
     \E m \in { CollectDuty(Memory, rec[1], rec[2], tmp) } :
     \E expected \in { Expected_duty(m.stat, tmp) } :
     \E d \in { Decide(triggered, m.business, expected,
                       p_duty(count(m.stat.overall_), m.history_events, return_period),
                       1 * Scale) } :
       Conclude(prev_tm + rec[1], tmp, rec[2], rec[1], m, expected, d)

NextSave ==
  \/ ReadStatistics
  \/ BriefEpisode
  \/ Relaunch

SpecSave == InitSave /\ [][NextSave]_vars

\* the observations held by the 48 buckets of a baseline or of a file
RECURSIVE Held(_, _)
Held(curve, h) ==
  IF h < 0 THEN 0
  ELSE count(curve.weekday_[h]) + count(curve.weekend_[h]) + Held(curve, h - 1)

\* the seconds of the last n episodes of the log
RECURSIVE RecentSeconds(_, _)
RecentSeconds(lines, n) ==
  IF n = 0 THEN 0
  ELSE Max(0, lines[Len(lines)].seconds_off) + Max(0, lines[Len(lines)].seconds_on)
         + RecentSeconds(SubSeq(lines, 1, Len(lines) - 1), n - 1)

\* what fwrite() puts into magnetophon.stats
Written(curve) == << [ weekday_ |-> curve.weekday_, weekend_ |-> curve.weekend_ ] >>

LateRecordings == { << 60, 10 >>, << 585, 30 >>, << Day, 5 >>, << Day + 585, 30 >> }

InitExport ==
  /\ version = "fourier"
  /\ return_period \in ReturnPeriods
  /\ decay_den = 600
  /\ pc = "replay"
  /\ now = Day + 23 * 3600 + 50 * 60
  /\ prev_tm = now
  /\ overall_tm = now
  /\ stats_csv_tm = now
  /\ business = 0
  /\ stat = BaselineBusinessCurve
  /\ triggered = FALSE
  /\ history_seconds = 0
  /\ history_events = 0
  /\ csv = << >>
  /\ stats_file = << >>
  /\ files_written_since_last_save = 0
  /\ stats_csv = << >>
  /\ commands = << >>
  /\ last = NoEpisode
  /\ memo = [ live |-> << >>, prior |-> << >>, since |-> 0, exits |-> 0 ]
  /\ episodes = 0
  /\ restarts = 0
  /\ unit = << >>

\* part_001 lines 417-572 for a recording that starts late
LateEpisode ==
  /\ pc = "record"
  /\ episodes + restarts < MaxSteps
  /\ \E rec \in LateRecordings :
     \E tmp \in { Localtime(prev_tm + rec[1]) } :
     \E m \in { CollectFourier(Memory, rec[1], rec[2], tmp) } :
     \E expected \in { Expected_fourier(m.stat, tmp) } :
     \E d \in { Decide(triggered, m.business, expected,
                       p_fourier(m.history_seconds, m.history_events, return_period),
                       10001 * Scale) } :
       Conclude(prev_tm + rec[1], tmp, rec[2], rec[1], m, expected, d)

NextExport ==
  \/ Replay
  \/ LateEpisode
  \/ Restart

SpecExport == InitExport /\ [][NextExport]_vars

Called == unit'.callbacks = unit.callbacks + 1

\* C32: within one recording cycle the recorder state changes only from
\* Waiting to Recording, on a buffer that is not empty and whose level is
\* over the threshold, and from Recording to Done, on a buffer that is not
\* empty and whose level is not over it; both changes happen on such
\* buffers, the state never goes from Waiting to Done, never leaves Done,
\* and an empty buffer changes neither the state nor the recording.
C32_RecorderTransitions ==
  [][ unit'.iteration = unit.iteration =>
        /\ unit'.mState # unit.mState =>
             /\ Called
             /\ ~unit'.inBuffer[1].empty
             /\ \/ /\ unit.mState = "Waiting"
                   /\ unit'.mState = "Recording"
                   /\ unit'.inBuffer[1].loud
                \/ /\ unit.mState = "Recording"
                   /\ unit'.mState = "Done"
                   /\ ~unit'.inBuffer[1].loud
        /\ (Called /\ ~unit'.inBuffer[1].empty /\ unit.mState = "Waiting") =>
             unit'.mState = IF unit'.inBuffer[1].loud THEN "Recording" ELSE "Waiting"
        /\ (Called /\ ~unit'.inBuffer[1].empty /\ unit.mState = "Recording") =>
             unit'.mState = IF unit'.inBuffer[1].loud THEN "Recording" ELSE "Done"
        /\ unit.mState = "Done" => unit'.mState = "Done"
        /\ (Called /\ unit'.inBuffer[1].empty) =>
             /\ unit'.mState = unit.mState
             /\ unit'.mRecordingStartTime = unit.mRecordingStartTime
             /\ unit'.mRecordingLength = unit.mRecordingLength
             /\ unit'.mCurrentPacket = unit.mCurrentPacket
             /\ unit'.writes = unit.writes ]_vars

\* a second cycle that wrote two buffers to the file and is done
C32_Witness ==
  /\ unit.iteration = 2
  /\ unit.mState = "Done"
  /\ unit.stamped = 2
  /\ unit.callbacks = 4
  /\ unit.writes = 2
  /\ unit.conversions = 1


\* C33: a call of HandleInputBuffer made when the recorder state is Done
\* changes neither the recording start time nor the recording length nor
\* the packet count, writes nothing to the audio file and does not enqueue
\* its buffer again; a call that leaves another state than Done enqueues its
\* buffer again, the call that ends the recording does not; the recording
\* length is divided by the sample rate once per cycle, by the call that
\* ends the recording, and has been divided when the episode is processed.
C33_TailBuffersIgnored ==
  [][ /\ (Called /\ unit.mState = "Done") =>
           /\ unit'.mRecordingStartTime = unit.mRecordingStartTime
           /\ unit'.mRecordingLength = unit.mRecordingLength
           /\ unit'.mCurrentPacket = unit.mCurrentPacket
           /\ unit'.writes = unit.writes
           /\ unit'.starts = unit.starts
           /\ unit'.enqueued = unit.enqueued - 1
      /\ (Called /\ unit'.mState # "Done") => unit'.enqueued = unit.enqueued
      /\ (Called /\ unit.mState = "Recording" /\ unit'.mState = "Done") =>
           /\ unit'.in_callback
           /\ unit'.enqueued = unit.enqueued
      /\ (unit.in_callback /\ ~unit'.in_callback) =>
           /\ unit.conversions = 0
           /\ unit'.conversions = 1
           /\ unit'.mRecordingLength = unit.mRecordingLength \div SampleRate
           /\ unit'.enqueued = unit.enqueued - 1
      /\ (unit'.iteration = unit.iteration /\ unit'.conversions # unit.conversions) =>
           (unit.in_callback /\ ~unit'.in_callback)
      /\ (episodes' = episodes + 1) => unit.conversions = 1 ]_vars

\* two buffers recorded, the recording ended and two more buffers ignored
C33_Witness ==
  /\ unit.mState = "Done"
  /\ unit.callbacks = 5
  /\ unit.enqueued = 0
  /\ unit.mCurrentPacket = 2 * BufferSamples
  /\ unit.mRecordingLength = 1
  /\ unit.conversions = 1
  /\ unit.at = "sleep"


\* C34: under every interleaving of the callback with the main loop, the
\* main loop reads the recording length after the callback that ended the
\* recording has returned: once the queue is stopped no callback is in
\* progress, and the seconds of activity of the episode are the samples
\* written to the file divided by the sample rate, never the samples.
C34_LengthConvertedBeforeUse ==
  [][ /\ (unit.at \in { "dispose", "close", "collect" } /\ unit.iteration > episodes) =>
           /\ ~unit.in_callback
           /\ unit.conversions = 1
      /\ (episodes' = episodes + 1) =>
           /\ last'.valid
           /\ last'.seconds_of_activity = unit.mCurrentPacket \div SampleRate
           /\ (unit.mCurrentPacket > 0 => last'.seconds_of_activity < unit.mCurrentPacket) ]_vars

\* the main loop has seen Done in the second cycle and the callback has not
\* divided the three buffers' samples yet
C34_Witness ==
  /\ unit.iteration = 2
  /\ unit.at = "stop"
  /\ unit.mState = "Done"
  /\ unit.in_callback
  /\ unit.mRecordingLength = 3 * BufferSamples


(***************************************************************************)
(* Progress of a recording cycle.  The callback thread finishes the call   *)
(* it is in and the main thread goes on from one statement to the next:    *)
(* weak fairness of every step but the delivery of a buffer, which is the  *)
(* input.  For the statistics step, which is enabled in the states of      *)
(* Collecting, weak fairness is written without ENABLED.                   *)
(***************************************************************************)

\* part_001 lines 414-416: the file is closed and the episode not processed
Collecting == pc = "record" /\ unit.at = "collect" /\ episodes = unit.iteration - 1

SpecCycleLive ==
  /\ InitCycle
  /\ [][NextCycle]_vars
  /\ WF_vars(Convert)
  /\ WF_vars(Poll)
  /\ WF_vars(AudioQueueStop)
  /\ WF_vars(AudioQueueDispose)
  /\ WF_vars(AudioFileClose)
  /\ ([]<>(~Collecting) \/ []<><<CycleEpisode>>_vars)
  /\ WF_vars(StartCycle)

\* a buffer with bytes over the threshold, delivered to a waiting recorder
LoudBuffer == HandleInputBuffer /\ unit.mState = "Waiting" /\ unit'.mState = "Recording"

\* a buffer with bytes not over the threshold, delivered while recording
QuietBuffer == HandleInputBuffer /\ unit.mState = "Recording" /\ unit'.mState = "Done"

\* C35: if a waiting recorder is eventually delivered a loud buffer with
\* bytes and a recording one is eventually delivered a quiet buffer with
\* bytes, every cycle that waits reaches Done and its episode is processed,
\* and after the first cycle the next one starts in Waiting; a step that is
\* not the delivery of a loud buffer with bytes leaves a waiting recorder
\* waiting, whatever the time that passed, and a cycle that waits has no
\* episode.
C35_CycleLiveness ==
  /\ (WF_vars(LoudBuffer) /\ WF_vars(QuietBuffer)) =>
       /\ \A n \in 1..MaxCycles :
            (unit.iteration = n /\ unit.mState = "Waiting")
              ~> (unit.iteration = n /\ unit.mState = "Done" /\ episodes = n)
       /\ \A n \in 1..(MaxCycles - 1) :
            (unit.iteration = n /\ unit.mState = "Waiting")
              ~> (unit.iteration = n + 1 /\ unit.mState = "Waiting" /\ episodes = n)
  /\ [][ (unit.iteration > 0 /\ unit.mState = "Waiting") =>
           /\ episodes = unit.iteration - 1
           /\ episodes' = episodes
           /\ unit'.iteration = unit.iteration
           /\ unit'.mState # "Waiting" =>
                /\ Called
                /\ ~unit'.inBuffer[1].empty
                /\ unit'.inBuffer[1].loud ]_vars

\* the first episode is processed and the second cycle waits, a minute
\* after its start
C35_Witness ==
  /\ episodes = 1
  /\ unit.iteration = 2
  /\ unit.mState = "Waiting"
  /\ unit.ticks > 120


(***************************************************************************)
(* The overall accumulator and the 48 hourly buckets of part_000 and       *)
(* part_001, whose baseline starts empty at every launch.                  *)
(***************************************************************************)

\* C36: in part_000 and part_001 the count of overall_ is the sum of the
\* counts of the 48 hourly buckets after every step; the replay, from an
\* empty baseline, records one observation per line of the log, and a live
\* episode adds 1 to the count of overall_ and 1 to the count of exactly one
\* hourly bucket.
C36_OverallCountIsSumOfBuckets ==
  [][ version # "duty" =>
        /\ count(stat'.overall_) = Held(stat', 23)
        /\ (pc = "replay" /\ pc' = "record") =>
             /\ count(stat.overall_) = 0
             /\ Held(stat, 23) = 0
             /\ count(stat'.overall_) = Len(csv)
        /\ (episodes' = episodes + 1) =>
             /\ count(stat'.overall_) = count(stat.overall_) + 1
             /\ Cardinality({ ptr \in Buckets : At(stat', ptr) # At(stat, ptr) }) = 1
             /\ \A ptr \in Buckets :
                  At(stat', ptr) # At(stat, ptr) =>
                    count(At(stat', ptr)) = count(At(stat, ptr)) + 1 ]_vars

\* part_000 has replayed a log of 24 lines and recorded two episodes more
C36_Witness ==
  /\ version = "interp"
  /\ pc = "record"
  /\ episodes = 2
  /\ Len(csv) = 26
  /\ count(stat.overall_) = 26
  /\ Held(stat, 23) = 26


(***************************************************************************)
(* The neighbour bucket as an element of the arrays.                       *)
(***************************************************************************)

\* C37: at every weekday index, hour and minute the neighbour bucket is one
\* of the 48 hourly buckets, its index being within 0..23 of weekday_ or
\* weekend_; it is the bucket after the own one only at an hour below 23 and
\* the bucket before the own one only at an hour above 0, and at 23 and 0 it
\* is element 0 and element 23 of an array.
C37_NeighbourIsABucket ==
  \A sel \in { unit.at[i] : i \in DOMAIN unit.at } \cup { unit.next[i] : i \in DOMAIN unit.next } :
    /\ sel.rspa \in Buckets
    /\ sel.rspb \in Buckets
    /\ sel.rspb.hour \in 0..23
    /\ sel.rspb # sel.rspa
    /\ IF sel.tm.tm_min >= 30
         THEN IF sel.tm.tm_hour = 23 THEN sel.rspb.hour = 0
              ELSE sel.rspb = [ sel.rspa EXCEPT !.hour = @ + 1 ]
         ELSE IF sel.tm.tm_hour = 0 THEN sel.rspb.hour = 23
              ELSE sel.rspb = [ sel.rspa EXCEPT !.hour = @ - 1 ]

\* Monday 00:29 and 00:30: the neighbour is element 23 of weekend_, then
\* element 1 of weekday_
C37_Witness ==
  /\ unit.at # << >>
  /\ unit.at[1].tm.tm_wday = 1
  /\ unit.at[1].tm.tm_hour = 0
  /\ unit.at[1].tm.tm_min = 29
  /\ unit.at[1].rspb = [ weekend |-> TRUE, hour |-> 23 ]
  /\ unit.next[1].rspb = [ weekend |-> FALSE, hour |-> 1 ]


(***************************************************************************)
(* The divisor of p in part_000 and part_001.                              *)
(***************************************************************************)

\* C38: at every evaluation of the threshold that follows episodes without a
\* negative duration, the event rate p is divided by is strictly positive:
\* in part_001 at least one event is counted over a positive number of
\* seconds, in part_000 the mean of overall_ is above 0.
C38_DivisorPositive ==
  (Evaluated /\ ~last.was_triggered /\ WellFormed(csv) /\ version # "duty") =>
     IF version = "fourier"
       THEN /\ history_events > 0
            /\ history_seconds + 1 > 0
       ELSE /\ count(stat.overall_) > 0
            /\ mean(stat.overall_) > 0

====
